---- MODULE Spec2Model ----
(***************************************************************************)
(* Model of the upload-and-transcription pipeline of gemini-transcribe:    *)
(* src/routes/api/upload/+server.ts (GET and POST /upload) together with   *)
(* the usage ledger of src/lib/server/db.ts.                               *)
(*                                                                         *)
(* One POST handler runs per slot.  JavaScript runs a handler to its next  *)
(* await without interruption, so every action below is the code between   *)
(* two awaits of one handler (or one callback of the multipart parser or   *)
(* of a file-write task), and handlers interleave only at those points.    *)
(***************************************************************************)
EXTENDS Integers, Sequences, FiniteSets, TLC

(***************************************************************************)
(* Program constants                                                       *)
(***************************************************************************)
RATE_LIMIT == 5
DURATION == 24 * 60 * 60 * 1000
MAX_MEDIA_DURATION_MS == 2 * 60 * 60 * 1000
MAX_UPLOAD_BYTES == 256 * 1024 * 1024
maxRetries == 3
initialRetryDelay == 1000
models == <<"gemini-3-flash-preview", "gemini-2.5-flash",
            "gemini-2.5-flash-lite-preview-09-2025">>

(***************************************************************************)
(* Bounds of the model                                                     *)
(***************************************************************************)
MaxPosts == 2      \* POST requests in one run of the pipeline
MaxRatePosts == 7  \* POST requests in one run of the admission gate
MaxRacePosts == 3  \* POST requests of the concurrent handlers
MaxPolls == 3      \* checks inside the loop answering PROCESSING that are followed per request
MaxParts == 2      \* parts of one multipart body
MaxTicks == 2      \* advances of the clock
MaxLog == 2        \* rows the usage ledger can take before inserts fail

Slots == {"h1", "h2"}
IPs == {"ip1"}

\* The clock advances by one millisecond or by a whole window.
TickSteps == {1, DURATION}

\* Content-Length header: -1 is an absent header, otherwise its numeric value.
ContentLengths == {-1, MAX_UPLOAD_BYTES, MAX_UPLOAD_BYTES + 1}
\* Sizes of a file part, in bytes
PartSizes == {1, MAX_UPLOAD_BYTES + 1}
ContentTypes == {"multipart/form-data", "application/json", "none"}
Origins == {"none", "same", "cross"}
\* Origin header: absent, the origin of the request URL, another origin, or
\* the serialisation "null" a browser sends for an opaque origin (a sandboxed
\* frame, a redirect across origins).
OriginHeaders == Origins \cup {"null"}

\* metadata.format.duration as parseFile reports it, in units of 1/10000 s;
\* -1 is an undefined duration, "throws" a failed parse.
ProbeResults == {-1, 72000004, 72000005, 72300000}

\* An error is the set of the fragments its message includes, among those the
\* code looks for with message.includes(...) and those that tell errors apart.
\* Errors a generation attempt can raise:
GenErrors == {{"429"}, {"rate limit"}, {"503"}, {"400"}}
\* Errors a readiness check can raise:
PollErrors == {{"500 Internal Server Error"}, {"fetch failed"}}
FileStates == {"PROCESSING", "ACTIVE", "FAILED"}

VARIABLES
    now,        \* Date.now()
    requests,   \* the rate-limit table: ip -> reference to a window record (0: none)
    recs,       \* the window record objects, by reference
    usage_logs, \* rows of the usage ledger
    MOCK_API,   \* env.MOCK_API === 'true'
    req,        \* per slot: the local variables of one POST handler
    ticks,      \* clock advances so far
    posts,      \* POST requests so far
    admits,     \* history: per ip, the admissions that still hold their charge
    stream,     \* the response body of a 200 answer: the relay and the provider's generator
    rate,       \* the last POST /rate: its body, its answer, the ledger it found
    got,        \* the answer of the step just taken, when it was a GET /upload
    page        \* the client page reading the body of a 200 answer

vars == <<now, requests, recs, usage_logs, MOCK_API, req, ticks, posts, admits, stream, rate,
          got, page>>

NoResponse == [status |-> 0, body |-> "", minutes |-> 0, xUsageId |-> -1]

Idle == [pc |-> "idle", ip |-> "", record |-> 0, fileSizeBytes |-> 0,
         language |-> "English", parse |-> "none", tasks |-> <<>>, nparts |-> 0,
         tempFileHandle |-> 0, fileUploadPromise |-> 0, durationMs |-> 0,
         uploadResult |-> FALSE, state |-> "", uri |-> FALSE, retries |-> 0,
         delay |-> 0, model |-> 0, result |-> "none", successfulModel |-> "",
         lastError |-> {}, usageId |-> 0, response |-> NoResponse,
         preCount |-> -1, admitTime |-> -1, refunds |-> 0, calls |-> {},
         attempts |-> <<>>, streak |-> 0, logBase |-> 0,
         contentType |-> "", contentLength |-> -1, origin |-> "", durationError |-> FALSE,
         polls |-> 0, deletes |-> 0, deleteError |-> FALSE]

\* No streaming response yet.
NoStream == [input |-> <<>>, upstream |-> <<>>, gen |-> "none", out |-> <<>>,
             cancelled |-> FALSE, returnQueued |-> FALSE, upstreamClosed |-> FALSE,
             pulls |-> 0, latePulls |-> 0, owner |-> "", source |-> ""]

\* lines 425-426: the relay, not yet started, as the handler in slot r hands
\* it over in its response body.  Its source is the provider's result stream,
\* which will deliver the chunks cs, or the mock generator, whose body has not
\* begun to run.
Handover(r, source, cs) ==
    [NoStream EXCEPT !.input = cs, !.upstream = cs, !.gen = "start", !.owner = r,
                     !.source = source]

\* A request header: absent, or present with its value.
Absent == [present |-> FALSE, value |-> ""]

Header(value) == [present |-> TRUE, value |-> value]

\* The headers extractClientIp reads, and the address of the connection.
NoHeaders == [fly |-> Absent, xff |-> Absent, address |-> ""]

\* The step just taken was no GET /upload.
NoGet == [headers |-> NoHeaders, ip |-> "", status |-> 0, body |-> "", remaining |-> -1]

\* The page before a submission.
NoPage == [body |-> "", streamBuffer |-> "", transcriptArray |-> <<>>,
           speculative |-> <<>>, read |-> FALSE, uploadComplete |-> FALSE]

\* No POST /rate yet.
NoRate == [usageId |-> -1, rating |-> 0, status |-> 0, success |-> FALSE, before |-> <<>>]

Init ==
    /\ now = 0
    /\ requests = [i \in IPs |-> 0]
    /\ recs = <<>>
    /\ usage_logs = <<>>
    /\ MOCK_API \in BOOLEAN
    /\ req = [r \in Slots |-> Idle]
    /\ ticks = 0
    /\ posts = 0
    /\ admits = [i \in IPs |-> <<>>]
    /\ stream = NoStream
    /\ rate = NoRate
    /\ got = NoGet
    /\ page = NoPage

(***************************************************************************)
(* Client identifier, lines 114-120                                        *)
(***************************************************************************)
\* The position of the first ch in str at or after from, 0 when there is none
IndexOf(str, ch, from) ==
    LET at == {i \in from..Len(str) : SubSeq(str, i, i) = ch}
    IN  IF at = {} THEN 0 ELSE CHOOSE i \in at : \A j \in at : i <= j

\* Mutant of FirstEntry: the entry after the last comma is taken.
RECURSIVE LastEntry(_)
LastEntry(str) ==
    IF IndexOf(str, ",", 1) = 0 THEN str
    ELSE LastEntry(SubSeq(str, IndexOf(str, ",", 1) + 1, Len(str)))

\* line 117: split(',')[0]
FirstEntry(str) ==
    IF IndexOf(str, ",", 1) = 0 THEN str ELSE SubSeq(str, 1, IndexOf(str, ",", 1) - 1)

\* line 117: trim(), for strings whose only white space is the space
RECURSIVE TrimSpaces(_)
TrimSpaces(str) ==
    IF str = "" THEN ""
    ELSE IF SubSeq(str, 1, 1) = " " THEN TrimSpaces(SubSeq(str, 2, Len(str)))
    ELSE IF SubSeq(str, Len(str), Len(str)) = " "
         THEN TrimSpaces(SubSeq(str, 1, Len(str) - 1))
    ELSE str

extractClientIp(headers) ==
    IF headers.fly.present /\ headers.fly.value # ""
    THEN headers.fly.value
    ELSE IF headers.xff.present /\ TrimSpaces(FirstEntry(headers.xff.value)) # ""
    THEN TrimSpaces(FirstEntry(headers.xff.value))
    ELSE headers.address

\* The requests of the one client of the pipeline
ClientHeaders == {[fly |-> Header("ip1"), xff |-> Absent, address |-> "ip1"]}

(***************************************************************************)
(* Admission gate                                                          *)
(***************************************************************************)
\* Mutant of IsExpired: a window is expired at its expiry time already.
IsExpiredInclusive(rec, t) == rec.expires <= t

\* checkRateLimit, lines 20-25: the window record the check works on.  A missing
\* or expired record is replaced by a fresh one.
IsExpired(rec, t) == rec.expires < t

FreshNeeded(ip) == requests[ip] = 0 \/ IsExpired(recs[requests[ip]], now)

RecsAfterCheck(ip) ==
    IF FreshNeeded(ip) THEN Append(recs, [count |-> 0, expires |-> now + DURATION])
    ELSE recs

RecordAfterCheck(ip) == IF FreshNeeded(ip) THEN Len(recs) + 1 ELSE requests[ip]

\* Mutant of Allowed: a window one below the limit is refused already.
AllowedBelowLimit(count) == ~(count >= RATE_LIMIT - 1)

\* Mutant of Allowed: the comparison lets a window at the limit through.
AllowedOffByOne(count) == ~(count > RATE_LIMIT)

\* checkRateLimit, lines 27-30
Allowed(count) == ~(count >= RATE_LIMIT)

Response(status, body) == [status |-> status, body |-> body, minutes |-> 0, xUsageId |-> -1]

Respond(q, status, body) == [q EXCEPT !.pc = "done", !.response = Response(status, body)]

\* History of the charges an ip still holds: the last RATE_LIMIT + 1 of them.
Trim(s) == IF Len(s) > RATE_LIMIT + 1 THEN Tail(s) ELSE s

RemoveOne(s, e) ==
    IF \E k \in DOMAIN s : s[k] = e
    THEN LET k == CHOOSE k \in DOMAIN s : s[k] = e /\ \A j \in DOMAIN s : s[j] = e => j <= k
         IN SubSeq(s, 1, k - 1) \o SubSeq(s, k + 1, Len(s))
    ELSE s


\* record.count++ (line 153) and record.count-- (lines 159, 168, 237, 244)
\* Mutant of Charge: the increment is applied twice.
ChargeTwice(rs, id) == [rs EXCEPT ![id].count = @ + 2]

\* lines 152-155
Charge(rs, id) == [rs EXCEPT ![id].count = @ + 1]

\* Mutant of Refund: the decrement is missing.
RefundMissing(rs, id) == rs

Refund(rs, id) == [rs EXCEPT ![id].count = @ - 1]

\* The handler's state q becomes the slot's state; with refund, the handler has
\* also run `record.count--; requests.set(ip, record)` on the way.
Commit(r, q, refund) ==
    /\ req' = [req EXCEPT ![r] = IF refund THEN [q EXCEPT !.refunds = @ + 1] ELSE q]
    /\ IF refund
       THEN /\ recs' = Refund(recs, q.record)
            /\ requests' = [requests EXCEPT ![q.ip] = q.record]
            /\ admits' = [admits EXCEPT ![q.ip] =
                             RemoveOne(@, [t |-> q.admitTime, rec |-> q.record])]
       ELSE UNCHANGED <<recs, requests, admits>>

\* GET /upload, lines 122-133
\* line 130: RATE_LIMIT - (record?.count || 0)
Remaining(count) == RATE_LIMIT - count

GET(headers) ==
    LET ip == extractClientIp(headers)
    IN  /\ recs' = RecsAfterCheck(ip)
        /\ requests' = [requests EXCEPT ![ip] = RecordAfterCheck(ip)]
        /\ got' = IF ~Allowed(RecsAfterCheck(ip)[RecordAfterCheck(ip)].count)
                  THEN [headers |-> headers, ip |-> ip, status |-> 429,
                        body |-> "Rate limit exceeded", remaining |-> -1]
                  ELSE [headers |-> headers, ip |-> ip, status |-> 200,
                        body |-> "remaining",
                        remaining |-> Remaining(RecsAfterCheck(ip)[RecordAfterCheck(ip)].count)]
        /\ UNCHANGED <<now, usage_logs, MOCK_API, req, ticks, posts, admits, stream, rate, page>>

\* POST /upload, lines 135-176: everything before the first await.
ContentTypeOk(contentType) == contentType = "multipart/form-data"

\* Mutant of TooLarge: a body of exactly the ceiling is rejected too.
TooLargeInclusive(contentLength) == contentLength # -1 /\ contentLength >= MAX_UPLOAD_BYTES

\* line 166
TooLarge(contentLength) == contentLength # -1 /\ contentLength > MAX_UPLOAD_BYTES

ParseIntLength(contentLength) == IF contentLength # -1 THEN contentLength ELSE 0

\* line 140: new URL(origin) throws a TypeError on a value that is not a URL,
\* as "null" is not
UrlParses(origin) == origin # "null"

\* line 140: new URL(origin).origin !== url.origin
OriginDiffers(origin) == origin # "same"

POST(r, ip, origin, contentType, contentLength) ==
    /\ req[r].pc \in {"idle", "done"}
    /\ posts' = posts + 1
    /\ UNCHANGED <<now, usage_logs, MOCK_API, ticks, stream, rate, page>>
    /\ got' = NoGet
    /\ IF origin # "none" /\ ~UrlParses(origin)
       THEN \* the TypeError leaves the handler, the server answers for it
            /\ req' = [req EXCEPT ![r] =
                        Respond([Idle EXCEPT !.ip = ip, !.logBase = Len(usage_logs),
                                             !.contentType = contentType,
                                             !.contentLength = contentLength,
                                             !.origin = origin],
                                500, "Internal Error")]
            /\ UNCHANGED <<recs, requests, admits>>
       ELSE IF origin # "none" /\ OriginDiffers(origin)
       THEN /\ req' = [req EXCEPT ![r] =
                        Respond([Idle EXCEPT !.ip = ip, !.logBase = Len(usage_logs),
                                             !.contentType = contentType,
                                             !.contentLength = contentLength,
                                             !.origin = origin],
                                403, "Forbidden")]
            /\ UNCHANGED <<recs, requests, admits>>
       ELSE LET rs == RecsAfterCheck(ip)
                id == RecordAfterCheck(ip)
                q == [Idle EXCEPT !.ip = ip, !.record = id, !.preCount = rs[id].count,
                                  !.admitTime = now, !.logBase = Len(usage_logs),
                                  !.contentType = contentType,
                                  !.contentLength = contentLength, !.origin = origin]
            IN  /\ requests' = [requests EXCEPT ![ip] = id]
                /\ IF ~Allowed(rs[id].count)
                   THEN /\ req' = [req EXCEPT ![r] = Respond(q, 429, "This free service supports up to 5 requests per user per day. Please try again tomorrow.")]
                        /\ recs' = rs
                        /\ UNCHANGED admits
                   ELSE IF ~ContentTypeOk(contentType)
                   THEN /\ req' = [req EXCEPT ![r] =
                               [Respond(q, 400, "Expected multipart/form-data")
                                   EXCEPT !.refunds = 1]]
                        /\ recs' = Refund(Charge(rs, id), id)
                        /\ UNCHANGED admits
                   ELSE IF TooLarge(contentLength)
                   THEN /\ req' = [req EXCEPT ![r] =
                               [Respond(q, 413, "File too large") EXCEPT !.refunds = 1]]
                        /\ recs' = Refund(Charge(rs, id), id)
                        /\ UNCHANGED admits
                   ELSE /\ req' = [req EXCEPT ![r] =
                               [q EXCEPT !.pc = "parse", !.parse = "pending",
                                         !.fileSizeBytes = ParseIntLength(contentLength)]]
                        /\ recs' = Charge(rs, id)
                        /\ admits' = [admits EXCEPT ![ip] =
                                         Trim(Append(@, [t |-> now, rec |-> id]))]

Tick(step) ==
    /\ ticks < MaxTicks
    /\ now' = now + step
    /\ ticks' = ticks + 1
    /\ UNCHANGED <<requests, recs, usage_logs, MOCK_API, req, posts, admits, stream, rate, page>>
    /\ got' = NoGet

(***************************************************************************)
(* Stream ingestor, lines 184-248                                          *)
(***************************************************************************)
\* tempFileHandle.cleanup()
Cleanup(q) ==
    IF q.tempFileHandle # 0
    THEN [q EXCEPT !.tasks[q.tempFileHandle].exists = FALSE]
    ELSE q

\* Mutant of CatchParse: the failure is answered as a client error.
CatchParseAs400(q) == Respond(Cleanup([q EXCEPT !.parse = "rejected"]), 400, "Error uploading file")

\* lines 235-241: the handler's catch around `await parsePromise`
CatchParse(q) == Respond(Cleanup([q EXCEPT !.parse = "rejected"]), 500, "Error uploading file")

\* lines 243-248 and the branch at 256: the handler after parsePromise resolved
NoFile(q) == q.tempFileHandle = 0

\* Mutant of AfterParse: mock mode is not looked at.
AfterParseIgnoringMock(q) ==
    LET p == [q EXCEPT !.parse = "resolved"]
    IN  IF NoFile(p) THEN Respond(Cleanup(p), 400, "No file uploaded")
        ELSE [p EXCEPT !.pc = "probe"]

AfterParse(q) ==
    LET p == [q EXCEPT !.parse = "resolved"]
    IN  IF NoFile(p) THEN Respond(Cleanup(p), 400, "No file uploaded")
        ELSE [p EXCEPT !.pc = IF MOCK_API THEN "mockWait" ELSE "probe"]

Unsettled(q) == q.pc = "parse" /\ q.parse \in {"pending", "finishing"}

\* reject(err): settles parsePromise unless it is settled already
Reject(r, q) ==
    IF Unsettled(q) THEN Commit(r, CatchParse(q), TRUE) ELSE Commit(r, q, FALSE)

\* resolve(): the same, on the success side
Resolve(r, q) ==
    IF Unsettled(q) THEN Commit(r, AfterParse(q), NoFile(q)) ELSE Commit(r, q, FALSE)

Rest == <<now, usage_logs, MOCK_API, ticks, posts, stream, rate, page>>

\* busboy.on('field'), lines 193-197
OnField(r, fieldname, value) ==
    /\ req[r].pc = "parse" /\ req[r].parse = "pending"
    /\ req[r].nparts < MaxParts
    /\ Commit(r, [req[r] EXCEPT !.nparts = @ + 1,
                     !.language = IF fieldname = "language"
                                  THEN (IF value = "" THEN "English" ELSE value)
                                  ELSE @], FALSE)
    /\ UNCHANGED Rest
    /\ got' = NoGet

\* busboy.on('file'), lines 199-219, up to `await tempFile(...)`
OnFile(r, fieldname) ==
    /\ req[r].pc = "parse" /\ req[r].parse = "pending"
    /\ req[r].nparts < MaxParts
    /\ Commit(r, IF fieldname # "file"
                 THEN [req[r] EXCEPT !.nparts = @ + 1]
                 ELSE [req[r] EXCEPT !.nparts = @ + 1,
                          !.tasks = Append(@, [st |-> "creating", exists |-> FALSE, bytes |-> 0]),
                          !.fileUploadPromise = Len(req[r].tasks) + 1], FALSE)
    /\ UNCHANGED Rest
    /\ got' = NoGet

\* busboy.on('error'), line 221
OnError(r) ==
    /\ req[r].pc = "parse" /\ req[r].parse = "pending"
    /\ Reject(r, req[r])
    /\ UNCHANGED Rest
    /\ got' = NoGet

\* busboy.on('finish'), lines 222-228.  busboy finishes once every file stream
\* it handed out has been read to its end.
OnFinish(r) ==
    LET q == req[r]
    IN  /\ q.pc = "parse" /\ q.parse = "pending"
        /\ \A i \in DOMAIN q.tasks : q.tasks[i].st \in {"flushing", "written"}
        /\ IF q.fileUploadPromise # 0 /\ q.tasks[q.fileUploadPromise].st # "written"
           THEN Commit(r, [q EXCEPT !.parse = "finishing"], FALSE)
           ELSE Resolve(r, q)
        /\ UNCHANGED Rest
        /\ got' = NoGet

\* The write tasks started at line 206.  A task runs on its own: the handler
\* waits for the last one only (line 225).  Once the handler has left line 234
\* nothing reads a task's progress any more, so the steps of a task's pipeline
\* are followed while the handler is at line 234 only; the creation of the
\* temporary file, which changes the disk and tempFileHandle, is followed always.

\* lines 208-212: tempFile() resolved in task i
TempFileCreated(r, i) ==
    /\ i \in DOMAIN req[r].tasks
    /\ req[r].tasks[i].st = "creating"
    /\ Commit(r, [req[r] EXCEPT !.tasks[i] = [st |-> "writing", exists |-> TRUE, bytes |-> 0],
                                !.tempFileHandle = i], FALSE)
    /\ UNCHANGED Rest
    /\ got' = NoGet

\* line 214: the part's stream has been read to its end by the pipeline
\* with bytes the size of the part.  A body with a Content-Length header is
\* cut off by the HTTP server at the declared length, so each of its parts is
\* shorter than that; a body without the header (chunked) has any length.
SourceEnd(r, i, bytes) ==
    /\ req[r].pc = "parse"
    /\ i \in DOMAIN req[r].tasks
    /\ req[r].tasks[i].st = "writing"
    /\ req[r].contentLength # -1 => bytes < req[r].contentLength
    /\ Commit(r, [req[r] EXCEPT !.tasks[i].st = "flushing", !.tasks[i].bytes = bytes], FALSE)
    /\ UNCHANGED Rest
    /\ got' = NoGet

\* line 214: pipeline() resolved; the task ends, and a finish handler waiting
\* for it (line 225) resolves parsePromise
WriteDone(r, i) ==
    /\ req[r].pc = "parse"
    /\ i \in DOMAIN req[r].tasks
    /\ req[r].tasks[i].st = "flushing"
    /\ LET q == [req[r] EXCEPT !.tasks[i].st = "written"]
       IN  IF q.parse = "finishing" /\ q.fileUploadPromise = i
           THEN Resolve(r, q)
           ELSE Commit(r, q, FALSE)
    /\ UNCHANGED Rest
    /\ got' = NoGet

\* lines 215-217: tempFile() or pipeline() threw in task i
TaskFails(r, i) ==
    /\ req[r].pc = "parse"
    /\ i \in DOMAIN req[r].tasks
    /\ req[r].tasks[i].st \in {"creating", "writing", "flushing"}
    /\ Reject(r, [req[r] EXCEPT !.tasks[i].st = "failed"])
    /\ UNCHANGED Rest
    /\ got' = NoGet


(***************************************************************************)
(* Usage ledger, db.ts lines 27-37, as called at lines 405-413             *)
(***************************************************************************)
\* logUsage: the insert either succeeds and returns lastInsertRowid, or throws
\* and the handler keeps usageId = 0.
LogUsage(q, dbOk) ==
    IF dbOk THEN [q EXCEPT !.usageId = Len(usage_logs) + 1] ELSE q

\* Mutant of LedgerAfter: the row is inserted twice.
LedgerAfterTwice(q, dbOk) ==
    IF dbOk
    THEN usage_logs \o <<[file_size_bytes |-> q.fileSizeBytes,
                          model_used |-> q.successfulModel,
                          duration_ms |-> q.durationMs,
                          rating |-> 0],
                         [file_size_bytes |-> q.fileSizeBytes,
                          model_used |-> q.successfulModel,
                          duration_ms |-> q.durationMs,
                          rating |-> 0]>>
    ELSE usage_logs

LedgerAfter(q, dbOk) ==
    IF dbOk
    THEN Append(usage_logs, [file_size_bytes |-> q.fileSizeBytes,
                             model_used |-> q.successfulModel,
                             duration_ms |-> q.durationMs,
                             rating |-> 0])
    ELSE usage_logs

\* Mutant of Stream: a request without a usage record is failed.
StreamFailsUnlogged(q) ==
    IF q.usageId = 0
    THEN Respond(q, 500, "Error generating transcript")
    ELSE [q EXCEPT !.pc = "done",
                   !.response = [status |-> 200, body |-> "stream", minutes |-> 0,
                                 xUsageId |-> q.usageId]]

\* lines 428-435: the streaming response
Stream(q) ==
    [q EXCEPT !.pc = "done",
              !.response = [status |-> 200, body |-> "stream", minutes |-> 0,
                            xUsageId |-> q.usageId]]

(***************************************************************************)
(* Mock generator, lines 34-62                                             *)
(***************************************************************************)
\* lines 35-52
mockData ==
    <<[timestamp |-> "00:01", speaker |-> "Mock Speaker",
       text |-> "This is a simulated transcript for local development."],
      [timestamp |-> "00:05", speaker |-> "Mock Speaker",
       text |-> "It allows you to test the UI, streaming, and database without hitting the Google API."],
      [timestamp |-> "00:10", speaker |-> "Mock Speaker",
       text |-> "This specific sentence helps test long text wrapping in the frontend component to ensure it looks good."],
      [timestamp |-> "00:15", speaker |-> "Mock Speaker", text |-> "End of simulation."]>>

\* JSON.stringify of a string without characters to escape: the mock texts
\* hold no quote, no backslash and no control character.
StringifyString(str) == "\"" \o str \o "\""

\* JSON.stringify of a segment object: its keys in the order they were written
StringifySegment(seg) ==
    "{\"timestamp\":" \o StringifyString(seg.timestamp)
        \o ",\"speaker\":" \o StringifyString(seg.speaker)
        \o ",\"text\":" \o StringifyString(seg.text) \o "}"

RECURSIVE JoinSegments(_)
JoinSegments(segs) ==
    IF segs = <<>> THEN ""
    ELSE IF Len(segs) = 1 THEN StringifySegment(segs[1])
    ELSE StringifySegment(segs[1]) \o "," \o JoinSegments(Tail(segs))

\* JSON.stringify of an array of segments
StringifySegments(segs) == "[" \o JoinSegments(segs) \o "]"

\* line 54
fullJson == StringifySegments(mockData)

\* line 57
chunkSize == 10

\* Mutant of Slice: the end index is taken inclusive.
SliceInclusive(str, from, to) ==
    SubSeq(str, from + 1, IF to + 1 < Len(str) THEN to + 1 ELSE Len(str))

\* String.prototype.slice(from, to) for 0 <= from <= to
Slice(str, from, to) == SubSeq(str, from + 1, IF to < Len(str) THEN to ELSE Len(str))

\* lines 58-61: the chunks the loop yields from position i on
RECURSIVE MockChunksFrom(_)
MockChunksFrom(i) ==
    IF i < Len(fullJson)
    THEN <<[has |-> TRUE, text |-> Slice(fullJson, i, i + chunkSize)]>>
             \o MockChunksFrom(i + chunkSize)
    ELSE <<>>

mockTranscriptGenerator == MockChunksFrom(0)

(***************************************************************************)
(* Mock mode, lines 256-269 and 401-435                                    *)
(***************************************************************************)
MockWait(r, dbOk) ==
    /\ req[r].pc = "mockWait"
    /\ dbOk => Len(usage_logs) < MaxLog
    /\ LET q == Cleanup([req[r] EXCEPT !.result = "mock",
                                       !.successfulModel = "mock-model-v1",
                                       !.durationMs = 15000])
       IN  /\ Commit(r, Stream(LogUsage(q, dbOk)), FALSE)
           /\ usage_logs' = LedgerAfter(q, dbOk)
    /\ stream' = Handover(r, "mock", <<>>)
    /\ UNCHANGED <<now, MOCK_API, ticks, posts, rate, page>>
    /\ got' = NoGet

(***************************************************************************)
(* Duration probe, lines 73-77 and 272-286                                 *)
(***************************************************************************)
\* Math.round of a non-negative quotient n / d
Round(n, d) == (2 * n + d) \div (2 * d)

\* getMediaDuration: duration in units of 1/10000 s, -1 for undefined
getMediaDuration(duration) == Round(IF duration = -1 THEN 0 ELSE duration, 10)

\* Mutant of ExceedsLimit: a duration of exactly the ceiling is rejected too.
ExceedsLimitInclusive(durationMs) == durationMs >= MAX_MEDIA_DURATION_MS

\* line 276
ExceedsLimit(durationMs) == durationMs > MAX_MEDIA_DURATION_MS

Probe(r, duration) ==
    /\ req[r].pc = "probe"
    /\ LET q == [req[r] EXCEPT !.durationMs = getMediaDuration(duration),
                               !.calls = @ \cup {"probe"}]
       IN  IF ExceedsLimit(q.durationMs)
           THEN Commit(r, [Respond(Cleanup(q), 400, "File is too long")
                              EXCEPT !.response.minutes = Round(q.durationMs, 60000)], FALSE)
           ELSE Commit(r, [q EXCEPT !.pc = "upload", !.calls = @ \cup {"upload"}], FALSE)
    /\ UNCHANGED Rest
    /\ got' = NoGet

\* Mutant of CatchDuration: a probe that threw fails the request.
CatchDurationFails(q) ==
    Respond(Cleanup([q EXCEPT !.durationError = TRUE]), 500, "Error uploading file")

\* lines 283-286: the catch around the probe, and the upload it falls through to
CatchDuration(q) ==
    [q EXCEPT !.durationError = TRUE, !.pc = "upload", !.calls = @ \cup {"upload"}]

\* lines 272-273 and 283-286: the probe threw
ProbeThrows(r) ==
    /\ req[r].pc = "probe"
    /\ Commit(r, CatchDuration([req[r] EXCEPT !.calls = @ \cup {"probe"}]), FALSE)
    /\ UNCHANGED Rest
    /\ got' = NoGet

(***************************************************************************)
(* Transcription orchestrator, lines 288-398 and 415-423                   *)
(***************************************************************************)
\* lines 392-398: the catch around polling and generation
CatchTranscription(q) ==
    Respond(q, 500,
            "Sorry, something went wrong generating the transcript. Please try again later.")

\* Mutant of RefundsProviderFailure: a request the provider failed gets its
\* charge back.
RefundsProviderFailureAlways(q) == q.pc = "done"

\* lines 296-297, 341-352 and 392-398: the returns after a provider failure
\* carry no `record.count--`
RefundsProviderFailure(q) == FALSE

\* The handler's state q after a step that can end in a provider failure
Settle(r, q) == Commit(r, q, RefundsProviderFailure(q))

\* lines 288-301: ai.files.upload settled
Upload(r, ok) ==
    /\ req[r].pc = "upload"
    /\ IF ok
       THEN Commit(r, [Cleanup(req[r]) EXCEPT !.uploadResult = TRUE, !.pc = "get0",
                                              !.calls = @ \cup {"get"}], FALSE)
       ELSE Settle(r, Respond(Cleanup(req[r]), 500, "Error uploading file"))
    /\ UNCHANGED Rest
    /\ got' = NoGet

\* line 319
IsTransientPollError(message) == "500 Internal Server Error" \in message

\* Mutant of RetryDelay: the exponent is not offset by one.
RetryDelayNoOffset(retries) == initialRetryDelay * 2 ^ retries

\* line 328
RetryDelay(retries) == initialRetryDelay * 2 ^ (retries - 1)

\* Mutant of IsRetryable: every error moves on to the next model.
IsRetryableAny(message) == TRUE

\* lines 376-381
IsRetryable(message) ==
    "429" \in message \/ "rate limit" \in message \/ "503" \in message

\* line 365: the call to generateTranscriptWithModel for models[m]
Attempt(q, m) ==
    [q EXCEPT !.pc = "gen", !.model = m, !.attempts = Append(@, models[m]),
              !.calls = @ \cup {"generate"}]

\* Mutant of AfterGet: the loop gives up after two checks answering PROCESSING.
AfterGetBounded(q) ==
    IF q.state = "PROCESSING"
    THEN IF q.polls >= 2 THEN Respond(q, 500, "Timed out") ELSE [q EXCEPT !.pc = "sleep5"]
    ELSE IF q.state = "FAILED"
    THEN Respond(q, 500, "Unfortunately this file couldn't be processed. The file may be corrupt or in an unsupported format.")
    ELSE IF ~q.uri
    THEN Respond(q, 500, "File upload incomplete, URI not available")
    ELSE [q EXCEPT !.pc = "gen", !.model = 1, !.attempts = Append(@, models[1]),
                   !.calls = @ \cup {"generate"}]

\* Mutant of AfterGet: state FAILED is not looked at after the loop.
AfterGetIgnoringFailed(q) ==
    IF q.state = "PROCESSING" THEN [q EXCEPT !.pc = "sleep5"]
    ELSE IF ~q.uri
    THEN Respond(q, 500, "File upload incomplete, URI not available")
    ELSE [q EXCEPT !.pc = "gen", !.model = 1, !.attempts = Append(@, models[1]),
                   !.calls = @ \cup {"generate"}]

\* lines 311 and 341-365: the loop test and what follows the loop
AfterGet(q) ==
    IF q.state = "PROCESSING" THEN [q EXCEPT !.pc = "sleep5"]
    ELSE IF q.state = "FAILED"
    THEN Respond(q, 500, "Unfortunately this file couldn't be processed. The file may be corrupt or in an unsupported format.")
    ELSE IF ~q.uri
    THEN Respond(q, 500, "File upload incomplete, URI not available")
    ELSE Attempt(q, 1)

\* line 305: the first readiness check returned
Get0(r, state, uri) ==
    /\ req[r].pc = "get0"
    /\ Settle(r, AfterGet([req[r] EXCEPT !.state = state, !.uri = uri]))
    /\ UNCHANGED Rest
    /\ got' = NoGet

\* line 305: the first readiness check threw
Get0Throws(r, message) ==
    /\ req[r].pc = "get0"
    /\ Settle(r, CatchTranscription([req[r] EXCEPT !.lastError = message]))
    /\ UNCHANGED Rest
    /\ got' = NoGet

\* line 313: the 5 s wait is over, line 316 issues the next check
Sleep5(r) ==
    /\ req[r].pc = "sleep5"
    /\ Commit(r, [req[r] EXCEPT !.pc = "poll", !.delay = 0], FALSE)
    /\ UNCHANGED Rest
    /\ got' = NoGet

\* lines 316-317: a readiness check inside the loop returned
Poll(r, state, uri) ==
    /\ req[r].pc = "poll"
    /\ state = "PROCESSING" => req[r].polls < MaxPolls
    /\ Settle(r, AfterGet([req[r] EXCEPT !.state = state, !.uri = uri, !.retries = 0,
                                         !.streak = 0,
                                         !.polls = IF state = "PROCESSING" THEN @ + 1 ELSE @]))
    /\ UNCHANGED Rest
    /\ got' = NoGet

\* lines 318-338: a readiness check inside the loop threw
AfterPollError(q, message) ==
    IF IsTransientPollError(message)
    THEN LET p == [q EXCEPT !.retries = @ + 1]
         IN  IF p.retries > maxRetries
             THEN CatchTranscription(
                      [p EXCEPT !.lastError = {"Transcription API is currently unavailable"}])
             ELSE [p EXCEPT !.pc = "backoff", !.delay = RetryDelay(p.retries)]
    ELSE CatchTranscription([q EXCEPT !.lastError = message])

PollThrows(r, message) ==
    /\ req[r].pc = "poll"
    /\ Settle(r, AfterPollError([req[r] EXCEPT !.streak =
                                     IF "500 Internal Server Error" \in message THEN @ + 1 ELSE @],
                                 message))
    /\ UNCHANGED Rest
    /\ got' = NoGet

\* lines 332-333 and 311: the backoff wait is over; the loop test runs again
Backoff(r) ==
    /\ req[r].pc = "backoff"
    /\ Settle(r, AfterGet(req[r]))
    /\ UNCHANGED Rest
    /\ got' = NoGet

\* Mutant of SuccessfulModel: the first model of the list is recorded.
SuccessfulModelFirst(q) == models[1]

\* line 372
SuccessfulModel(q) == models[q.model]

\* lines 372-373 and 405-418: a generation attempt returned a stream
Gen(r, dbOk) ==
    /\ req[r].pc = "gen"
    /\ dbOk => Len(usage_logs) < MaxLog
    /\ LET q == [req[r] EXCEPT !.result = "stream", !.successfulModel = SuccessfulModel(req[r])]
       IN  /\ Commit(r, [LogUsage(q, dbOk) EXCEPT !.pc = "delete",
                                                 !.calls = @ \cup {"delete"},
                                                 !.deletes = @ + 1], FALSE)
           /\ usage_logs' = LedgerAfter(q, dbOk)
    /\ UNCHANGED <<now, MOCK_API, ticks, posts, stream, rate, page>>
    /\ got' = NoGet

\* line 362: the model the loop turns to after models[m]
NextModel(m) == m + 1

\* lines 374-391: a generation attempt threw
AfterGenError(q, message) ==
    LET p == [q EXCEPT !.lastError = message]
    IN  IF IsRetryable(message)
        THEN IF p.model < Len(models) THEN Attempt(p, NextModel(p.model))
             ELSE CatchTranscription(p)
        ELSE CatchTranscription(p)

GenThrows(r, message) ==
    /\ req[r].pc = "gen"
    /\ Settle(r, AfterGenError(req[r], message))
    /\ UNCHANGED Rest
    /\ got' = NoGet

\* Mutant of AfterDelete: a deletion that threw fails the request.
AfterDeleteFails(q, ok) ==
    IF ok THEN Stream(q) ELSE CatchTranscription([q EXCEPT !.deleteError = TRUE])

\* lines 417-435: the try around ai.files.delete, and the response after it
AfterDelete(q, ok) == Stream([q EXCEPT !.deleteError = ~ok])

\* lines 416-435: ai.files.delete settled, resolved (ok) or rejected
Delete(r, ok, cs) ==
    /\ req[r].pc = "delete"
    /\ Commit(r, AfterDelete(req[r], ok), FALSE)
    /\ stream' = Handover(r, "provider", cs)
    /\ UNCHANGED <<now, usage_logs, MOCK_API, ticks, posts, rate, page>>
    /\ got' = NoGet

(***************************************************************************)
(* Stream relay, lines 65-71, behind the response body of lines 425-435    *)
(***************************************************************************)
MaxChunks == 3     \* chunks the provider's generator yields for one transcript

\* A chunk of the provider's stream: its text is undefined (has = FALSE) or a
\* string.
Chunks == {[has |-> FALSE, text |-> ""], [has |-> TRUE, text |-> ""],
           [has |-> TRUE, text |-> "a"], [has |-> TRUE, text |-> "bc"]}

ChunkSeqs == UNION {[1..n -> Chunks] : n \in 0..MaxChunks}

\* Mutant of TextTruthy: only an undefined text is skipped.
TextTruthyDefined(chunk) == chunk.has

\* line 67: if (chunk.text)
TextTruthy(chunk) == chunk.has /\ chunk.text # ""

\* line 66: the for await loop asks the provider's generator for its next chunk
PullUpstream(s) ==
    [s EXCEPT !.gen = "awaiting", !.pulls = @ + 1,
              !.latePulls = IF s.cancelled THEN @ + 1 ELSE @]

\* line 66: a return() that reaches the relay inside its loop makes for await
\* close the provider's generator
CloseUpstream(s) == [s EXCEPT !.gen = "closed", !.upstreamClosed = TRUE]

StreamRest == <<now, requests, recs, usage_logs, MOCK_API, req, ticks, posts, admits, rate, page>>

\* lines 34-57: the body of the mock generator begins to run when the relay
\* asks it for its first chunk
Started(s) ==
    IF s.gen = "start" /\ s.source = "mock"
    THEN [s EXCEPT !.input = mockTranscriptGenerator, !.upstream = mockTranscriptGenerator]
    ELSE s

\* line 425: the Readable built on the relay asks it for its next text
Read ==
    /\ stream.gen \in {"start", "yielded"}
    /\ ~stream.cancelled
    /\ stream' = PullUpstream(Started(stream))
    /\ UNCHANGED StreamRest
    /\ got' = NoGet

\* lines 66-69: the provider's generator delivers a chunk.  A text is yielded;
\* a chunk without text sends the loop round again.  A return() that arrived
\* while the relay was waiting is served once the relay stands at a yield.
UpstreamChunk ==
    /\ stream.gen = "awaiting"
    /\ stream.upstream # <<>>
    /\ LET chunk == Head(stream.upstream)
           s == [stream EXCEPT !.upstream = Tail(@)]
           y == [s EXCEPT !.out = Append(@, chunk.text), !.gen = "yielded"]
       IN  stream' = IF TextTruthy(chunk)
                     THEN (IF y.returnQueued THEN CloseUpstream(y) ELSE y)
                     ELSE PullUpstream(s)
    /\ UNCHANGED StreamRest
    /\ got' = NoGet

\* line 66: the provider's generator is done, the loop and the relay end
UpstreamEnd ==
    /\ stream.gen = "awaiting"
    /\ stream.upstream = <<>>
    /\ stream' = [stream EXCEPT !.gen = "ended"]
    /\ UNCHANGED StreamRest
    /\ got' = NoGet

\* lines 425-426: the client cancels the body; the web stream destroys the
\* Readable, which calls return() on the relay.  A relay that has not started
\* ends without entering its loop, a relay standing at its yield leaves the
\* loop, a relay waiting for the provider has the return() queued.
Cancel ==
    /\ stream.gen \in {"start", "yielded", "awaiting"}
    /\ ~stream.cancelled
    /\ LET s == [stream EXCEPT !.cancelled = TRUE]
       IN  stream' = CASE stream.gen = "start" -> [s EXCEPT !.gen = "closed"]
                       [] stream.gen = "yielded" -> CloseUpstream(s)
                       [] stream.gen = "awaiting" -> [s EXCEPT !.returnQueued = TRUE]
    /\ UNCHANGED StreamRest
    /\ got' = NoGet

\* Mutant of OnStreamError: the error is handled as an error of the model
\* attempt, so that the loop may turn to the next model.
OnStreamErrorFallsBack(q, message) == AfterGenError([q EXCEPT !.pc = "gen"], message)

\* lines 65-71 and 425-435: an error of the provider's generator surfaces in
\* the relay after the handler has returned its response; nothing of the
\* handler is left to see it
OnStreamError(q, message) == q

\* line 66: the provider's generator throws while the relay waits for a chunk.
\* The relay ends with the error, which fails the response body.
UpstreamThrows(message) ==
    /\ stream.gen = "awaiting"
    /\ stream' = [stream EXCEPT !.gen = "failed"]
    /\ req' = IF stream.owner \in Slots
              THEN [req EXCEPT ![stream.owner] = OnStreamError(@, message)]
              ELSE req
    /\ UNCHANGED <<now, requests, recs, usage_logs, MOCK_API, ticks, posts, admits, rate, page>>
    /\ got' = NoGet

(***************************************************************************)
(* Client page, routes/+page.svelte: parseStreamedJson, lines 85-111, and  *)
(* the read loop of handleSubmit, lines 185-221                            *)
(***************************************************************************)
MaxSegments == 2   \* segments of one transcript

\* Segments of a transcript.  Their strings hold no quote, no backslash and no
\* control character, so StringifySegment writes them as JSON.stringify does.
SegmentTexts == {"hi", "a}b", "{"}

Segments == [timestamp : {"0:1"}, speaker : {"S"}, text : SegmentTexts]

SegmentSeqs == UNION {[1..n -> Segments] : n \in 0..MaxSegments}

\* line 88: buffer.match(/{[^}]*}/g), the matches at or after from
RECURSIVE MatchObjects(_, _)
MatchObjects(buffer, from) ==
    LET open == IndexOf(buffer, "{", from)
        close == IF open = 0 THEN 0 ELSE IndexOf(buffer, "}", open + 1)
    IN  IF close = 0 THEN <<>>
        ELSE <<SubSeq(buffer, open, close)>> \o MatchObjects(buffer, close + 1)

\* line 96: JSON.parse(objStr).  A piece cut out of a serialized transcript
\* parses when it is the serialization of a segment, and throws otherwise.
ParsesAsSegment(objStr) == \E seg \in Segments : StringifySegment(seg) = objStr

ParseSegment(objStr) == CHOOSE seg \in Segments : StringifySegment(seg) = objStr

\* lines 85-111.  The typeof checks of lines 97-102 hold for every segment.
parseStreamedJson(buffer) ==
    LET objectStrings == SelectSeq(MatchObjects(buffer, 1), ParsesAsSegment)
    IN  [i \in DOMAIN objectStrings |-> ParseSegment(objectStrings[i])]

\* line 199: JSON.parse(streamBuffer) of a complete body
ParseTranscript(buffer) == CHOOSE segs \in SegmentSeqs : StringifySegments(segs) = buffer

PageRest == <<now, requests, recs, usage_logs, MOCK_API, req, ticks, posts, admits, stream,
              rate>>

\* lines 193, 216-217: reader.read() delivers the next len characters of the body
ReadChunk(len) ==
    /\ ~page.uploadComplete
    /\ len \in 1..Len(page.body)
    /\ LET buffer == page.streamBuffer \o SubSeq(page.body, 1, len)
       IN  page' = [page EXCEPT !.body = SubSeq(page.body, len + 1, Len(page.body)),
                                !.streamBuffer = buffer,
                                !.transcriptArray = parseStreamedJson(buffer),
                                !.speculative = parseStreamedJson(buffer),
                                !.read = TRUE]
    /\ got' = NoGet
    /\ UNCHANGED PageRest

\* lines 193-214: reader.read() reports the end of the body
ReadDone ==
    /\ ~page.uploadComplete
    /\ page.body = ""
    /\ page' = [page EXCEPT !.transcriptArray = ParseTranscript(page.streamBuffer),
                            !.streamBuffer = "",
                            !.uploadComplete = TRUE]
    /\ got' = NoGet
    /\ UNCHANGED PageRest

(***************************************************************************)
(* POST /rate, routes/api/rate/+server.ts, and saveRating, db.ts 39-42     *)
(***************************************************************************)
\* The body's usageId: -1 is a body without usageId, otherwise its number.
UsageIds == -1 .. MaxLog + 1
\* The body's rating: 0 stands for every falsy rating, a missing one included.
Ratings == {-1, 0, 1, 2}

\* line 8: `usageId && ...`
UsageIdTruthy(usageId) == usageId # -1 /\ usageId # 0

\* Mutant of RatingValid: any truthy rating passes.
RatingValidTruthy(rating) == rating # 0

\* line 8: rating === 1 || rating === -1
RatingValid(rating) == rating = 1 \/ rating = -1

\* db.ts lines 39-42: UPDATE usage_logs SET rating = ? WHERE id = ?
saveRating(logs, id, rating) ==
    [i \in DOMAIN logs |-> IF i = id THEN [logs[i] EXCEPT !.rating = rating] ELSE logs[i]]

\* POST /rate, lines 4-19; dbOk: the statement runs without throwing
Rate(usageId, rating, dbOk) ==
    /\ IF UsageIdTruthy(usageId) /\ RatingValid(rating)
       THEN IF dbOk
            THEN /\ usage_logs' = saveRating(usage_logs, usageId, rating)
                 /\ rate' = [usageId |-> usageId, rating |-> rating, status |-> 200,
                             success |-> TRUE, before |-> usage_logs]
            ELSE /\ usage_logs' = usage_logs
                 /\ rate' = [usageId |-> usageId, rating |-> rating, status |-> 500,
                             success |-> FALSE, before |-> usage_logs]
       ELSE /\ usage_logs' = usage_logs
            /\ rate' = [usageId |-> usageId, rating |-> rating, status |-> 400,
                        success |-> FALSE, before |-> usage_logs]
    /\ UNCHANGED <<now, requests, recs, MOCK_API, req, ticks, posts, admits, stream, page>>
    /\ got' = NoGet

(***************************************************************************)
(* The system                                                              *)
(***************************************************************************)
\* One handler at a time, driven through every step of the pipeline.  Its
\* requests come from a browser: they carry an Origin header and declare a
\* length, at or over the ceiling.  Requests without a declared length run
\* under NextRate, requests without an Origin header under NextRace.  The
\* first readiness check may answer PROCESSING; a check inside the loop that
\* answers PROCESSING leaves the handler where the first one left it, and
\* runs under NextPoll.  The provider's result stream has one chunk; the
\* relay over every stream runs under NextStream and NextRelay.
Handlers == {"h1"}

OneChunk == <<[has |-> TRUE, text |-> "a"]>>

Next ==
    \/ \E r \in Handlers, ip \in IPs, origin \in Origins \ {"none"},
          contentType \in ContentTypes, contentLength \in ContentLengths \ {-1} :
          posts < MaxPosts /\ POST(r, ip, origin, contentType, contentLength)
    \/ \E r \in Handlers, fieldname \in {"language", "other"}, value \in {"", "French"} :
          OnField(r, fieldname, value)
    \/ \E r \in Handlers, fieldname \in {"file", "other"} : OnFile(r, fieldname)
    \/ \E r \in Handlers : OnError(r)
    \/ \E r \in Handlers : OnFinish(r)
    \/ \E r \in Handlers, i \in 1..MaxParts : TempFileCreated(r, i)
    \/ \E r \in Handlers, i \in 1..MaxParts, bytes \in PartSizes : SourceEnd(r, i, bytes)
    \/ \E r \in Handlers, i \in 1..MaxParts : WriteDone(r, i)
    \/ \E r \in Handlers, i \in 1..MaxParts : TaskFails(r, i)
    \/ \E r \in Handlers, dbOk \in BOOLEAN : MockWait(r, dbOk)
    \/ \E r \in Handlers, duration \in ProbeResults : Probe(r, duration)
    \/ \E r \in Handlers : ProbeThrows(r)
    \/ \E r \in Handlers, ok \in BOOLEAN : Upload(r, ok)
    \/ \E r \in Handlers, state \in FileStates, uri \in BOOLEAN : Get0(r, state, uri)
    \/ \E r \in Handlers, message \in PollErrors : Get0Throws(r, message)
    \/ \E r \in Handlers : Sleep5(r)
    \/ \E r \in Handlers, state \in FileStates \ {"PROCESSING"}, uri \in BOOLEAN :
          Poll(r, state, uri)
    \/ \E r \in Handlers, message \in PollErrors : PollThrows(r, message)
    \/ \E r \in Handlers : Backoff(r)
    \/ \E r \in Handlers, dbOk \in BOOLEAN : Gen(r, dbOk)
    \/ \E r \in Handlers, message \in GenErrors : GenThrows(r, message)
    \/ \E r \in Handlers, ok \in BOOLEAN : Delete(r, ok, OneChunk)

Spec == Init /\ [][Next]_vars

(***************************************************************************)
(* The pipeline for a client whose window already holds four requests that *)
(* kept their charge (their provider uploads failed, as under NextRate):   *)
(* the first admitted request fills the window.                            *)
(***************************************************************************)
InitQuota ==
    /\ now = 0
    /\ requests = [i \in IPs |-> 1]
    /\ recs = <<[count |-> RATE_LIMIT - 1, expires |-> DURATION]>>
    /\ usage_logs = <<>>
    /\ MOCK_API \in BOOLEAN
    /\ req = [r \in Slots |-> Idle]
    /\ ticks = 0
    /\ posts = 0
    /\ admits = [i \in IPs |-> [k \in 1..(RATE_LIMIT - 1) |-> [t |-> 0, rec |-> 1]]]
    /\ stream = NoStream
    /\ rate = NoRate
    /\ got = NoGet
    /\ page = NoPage

SpecQuota == InitQuota /\ [][Next]_vars


(***************************************************************************)
(* The admission gate over many requests: one handler after another, the   *)
(* clock running, GET probes between one POST and the next.  The bodies    *)
(* carry at most one part, a file part named 'file', and the provider      *)
(* refuses every upload, so each handler is short; each still runs the     *)
(* code of the actions above.                                              *)
(***************************************************************************)
NextRate ==
    \/ \E headers \in ClientHeaders :
          (\A r \in Handlers : req[r].pc \in {"idle", "done"}) /\ GET(headers)
    \/ \E r \in Handlers, ip \in IPs, origin \in {"same", "cross"},
          contentType \in {"multipart/form-data"},
          contentLength \in ContentLengths \ {MAX_UPLOAD_BYTES} :
          posts < MaxRatePosts /\ POST(r, ip, origin, contentType, contentLength)
    \/ \E step \in TickSteps : Tick(step)
    \/ \E r \in Handlers : req[r].nparts = 0 /\ OnFile(r, "file")
    \/ \E r \in Handlers : OnError(r)
    \/ \E r \in Handlers : OnFinish(r)
    \/ \E r \in Handlers : TempFileCreated(r, 1)
    \/ \E r \in Handlers : SourceEnd(r, 1, 1)
    \/ \E r \in Handlers : WriteDone(r, 1)
    \/ \E r \in Handlers : MockWait(r, FALSE)
    \/ \E r \in Handlers : ProbeThrows(r)
    \/ \E r \in Handlers : Upload(r, FALSE)

SpecRate == Init /\ [][NextRate]_vars

(***************************************************************************)
(* Concurrent requests of one client: two handlers in flight at once, each *)
(* suspended at `await parsePromise` (line 234) until its body fails or    *)
(* ends without a file, GET probes and the clock in between.  The client's *)
(* window starts with four requests that kept their charge; the requests   *)
(* carry neither an Origin nor a Content-Length header.                    *)
(***************************************************************************)
NextRace ==
    \/ \E headers \in ClientHeaders : GET(headers)
    \/ \E r \in Slots, ip \in IPs, contentType \in {"multipart/form-data", "none"} :
          posts < MaxRacePosts /\ POST(r, ip, "none", contentType, -1)
    \/ \E step \in TickSteps : Tick(step)
    \/ \E r \in Slots : OnError(r)
    \/ \E r \in Slots : OnFinish(r)

SpecRace == InitQuota /\ [][NextRace]_vars

(***************************************************************************)
(* Requests with every kind of Origin header, up to the end of the body's  *)
(* parsing, on a fresh server and on one whose window is a charge short of *)
(* the limit.                                                              *)
(***************************************************************************)
InitOrigin == Init \/ InitQuota

NextOrigin ==
    \/ \E r \in Slots, ip \in IPs, origin \in OriginHeaders,
          contentType \in {"multipart/form-data", "none"} :
          posts < MaxPosts /\ POST(r, ip, origin, contentType, -1)
    \/ \E step \in TickSteps : Tick(step)
    \/ \E r \in Slots : OnFile(r, "file")
    \/ \E r \in Slots : OnError(r)
    \/ \E r \in Slots : OnFinish(r)

SpecOrigin == InitOrigin /\ [][NextOrigin]_vars

(***************************************************************************)
(* The polling loop: requests with one file part of any size, with or      *)
(* without a declared length, uploaded to the provider, whose readiness    *)
(* checks answer any state or throw; the loop is followed for MaxPolls     *)
(* checks answering PROCESSING.                                            *)
(***************************************************************************)
NextPoll ==
    \/ \E r \in Handlers, ip \in IPs, contentLength \in {-1, MAX_UPLOAD_BYTES} :
          posts < MaxPosts /\ POST(r, ip, "same", "multipart/form-data", contentLength)
    \/ \E r \in Handlers : req[r].nparts = 0 /\ OnFile(r, "file")
    \/ \E r \in Handlers : OnFinish(r)
    \/ \E r \in Handlers : TempFileCreated(r, 1)
    \/ \E r \in Handlers, bytes \in PartSizes : SourceEnd(r, 1, bytes)
    \/ \E r \in Handlers : WriteDone(r, 1)
    \/ \E r \in Handlers : ProbeThrows(r)
    \/ \E r \in Handlers, ok \in BOOLEAN : Upload(r, ok)
    \/ \E r \in Handlers, state \in FileStates, uri \in BOOLEAN : Get0(r, state, uri)
    \/ \E r \in Handlers, message \in PollErrors : Get0Throws(r, message)
    \/ \E r \in Handlers : Sleep5(r)
    \/ \E r \in Handlers, state \in FileStates, uri \in BOOLEAN : Poll(r, state, uri)
    \/ \E r \in Handlers, message \in PollErrors : PollThrows(r, message)
    \/ \E r \in Handlers : Backoff(r)

SpecPoll == Init /\ [][NextPoll]_vars

(***************************************************************************)
(* The relay over every provider stream of up to MaxChunks chunks, from    *)
(* the moment the response has been handed over.                           *)
(***************************************************************************)
InitStream ==
    /\ now = 0
    /\ requests = [i \in IPs |-> 0]
    /\ recs = <<>>
    /\ usage_logs = <<>>
    /\ MOCK_API \in BOOLEAN
    /\ req = [r \in Slots |-> Idle]
    /\ ticks = 0
    /\ posts = 0
    /\ admits = [i \in IPs |-> <<>>]
    /\ \E cs \in ChunkSeqs : stream = [NoStream EXCEPT !.input = cs, !.upstream = cs,
                                                       !.gen = "start"]
    /\ rate = NoRate
    /\ got = NoGet
    /\ page = NoPage

NextStream == Read \/ UpstreamChunk \/ UpstreamEnd \/ Cancel

SpecStream == InitStream /\ [][NextStream]_vars

(***************************************************************************)
(* A request from its arrival to the end of its response body: the upload  *)
(* path with one file part, the model loop, and the relay over the stream  *)
(* the response hands over, which may fail while it is read.  Requests are *)
(* taken until one hands over a body.                                      *)
(***************************************************************************)
NoChunk == <<>>

ResultStreams == {NoChunk, OneChunk}

NextRelay ==
    \/ \E r \in Handlers, ip \in IPs :
          /\ posts < MaxPosts
          /\ stream.gen = "none"
          /\ POST(r, ip, "same", "multipart/form-data", MAX_UPLOAD_BYTES)
    \/ \E r \in Handlers : req[r].nparts = 0 /\ OnFile(r, "file")
    \/ \E r \in Handlers : OnFinish(r)
    \/ \E r \in Handlers : TempFileCreated(r, 1)
    \/ \E r \in Handlers : SourceEnd(r, 1, 1)
    \/ \E r \in Handlers : WriteDone(r, 1)
    \/ \E r \in Handlers, dbOk \in BOOLEAN : MockWait(r, dbOk)
    \/ \E r \in Handlers : ProbeThrows(r)
    \/ \E r \in Handlers : Upload(r, TRUE)
    \/ \E r \in Handlers : Get0(r, "ACTIVE", TRUE)
    \/ \E r \in Handlers, dbOk \in BOOLEAN : Gen(r, dbOk)
    \/ \E r \in Handlers, message \in GenErrors : GenThrows(r, message)
    \/ \E r \in Handlers, ok \in BOOLEAN, cs \in ResultStreams : Delete(r, ok, cs)
    \/ Read
    \/ UpstreamChunk
    \/ UpstreamEnd
    \/ \E message \in GenErrors : UpstreamThrows(message)
    \/ Cancel

SpecRelay == Init /\ [][NextRelay]_vars

(***************************************************************************)
(* The relay over the mock generator, as mock mode streams it              *)
(***************************************************************************)
InitMock ==
    /\ now = 0
    /\ requests = [i \in IPs |-> 0]
    /\ recs = <<>>
    /\ usage_logs = <<>>
    /\ MOCK_API = TRUE
    /\ req = [r \in Slots |-> Idle]
    /\ ticks = 0
    /\ posts = 0
    /\ admits = [i \in IPs |-> <<>>]
    /\ stream = [NoStream EXCEPT !.input = mockTranscriptGenerator,
                                 !.upstream = mockTranscriptGenerator, !.gen = "start"]
    /\ rate = NoRate
    /\ got = NoGet
    /\ page = NoPage

SpecMock == InitMock /\ [][NextStream]_vars

(***************************************************************************)
(* POST /rate over every ledger of up to MaxLog unrated rows, as logUsage  *)
(* leaves them.                                                            *)
(***************************************************************************)
LoggedRows ==
    {[file_size_bytes |-> 0, model_used |-> "mock-model-v1", duration_ms |-> 15000,
      rating |-> 0],
     [file_size_bytes |-> MAX_UPLOAD_BYTES, model_used |-> models[1], duration_ms |-> 0,
      rating |-> 0]}

InitRating ==
    /\ now = 0
    /\ requests = [i \in IPs |-> 0]
    /\ recs = <<>>
    /\ \E n \in 0..MaxLog : usage_logs \in [1..n -> LoggedRows]
    /\ MOCK_API \in BOOLEAN
    /\ req = [r \in Slots |-> Idle]
    /\ ticks = 0
    /\ posts = 0
    /\ admits = [i \in IPs |-> <<>>]
    /\ stream = NoStream
    /\ rate = NoRate
    /\ got = NoGet
    /\ page = NoPage

NextRating ==
    \E usageId \in UsageIds, rating \in Ratings, dbOk \in BOOLEAN : Rate(usageId, rating, dbOk)

(***************************************************************************)
(* GET /upload from clients behind every combination of the two proxy      *)
(* headers                                                                 *)
(***************************************************************************)
FlyValues == {Absent, Header(""), Header("1.1.1.1")}

XffValues == {Absent, Header(""), Header("2.2.2.2"), Header("2.2.2.2, 3.3.3.3"),
              Header(" 2.2.2.2 ,3.3.3.3"), Header(",3.3.3.3"), Header(" , 3.3.3.3")}

Addresses == {"9.9.9.9"}

RequestHeaders == [fly : FlyValues, xff : XffValues, address : Addresses]

\* The identifiers the rate-limit table can come to hold
ClientIds == {"1.1.1.1", "2.2.2.2", "3.3.3.3", "9.9.9.9"}

InitIp ==
    /\ now = 0
    /\ requests = [i \in ClientIds |-> 0]
    /\ recs = <<>>
    /\ usage_logs = <<>>
    /\ MOCK_API \in BOOLEAN
    /\ req = [r \in Slots |-> Idle]
    /\ ticks = 0
    /\ posts = 0
    /\ admits = [i \in ClientIds |-> <<>>]
    /\ stream = NoStream
    /\ rate = NoRate
    /\ got = NoGet
    /\ page = NoPage

NextIp == \E headers \in RequestHeaders : GET(headers)

SpecIp == InitIp /\ [][NextIp]_vars

SpecRating == InitRating /\ [][NextRating]_vars

(***************************************************************************)
(* The client page over every transcript of up to MaxSegments segments,    *)
(* delivered in every chunking                                             *)
(***************************************************************************)
MaxChunkLen == 12  \* characters one read delivers at most

InitPage ==
    /\ now = 0
    /\ requests = [i \in IPs |-> 0]
    /\ recs = <<>>
    /\ usage_logs = <<>>
    /\ MOCK_API \in BOOLEAN
    /\ req = [r \in Slots |-> Idle]
    /\ ticks = 0
    /\ posts = 0
    /\ admits = [i \in IPs |-> <<>>]
    /\ stream = NoStream
    /\ rate = NoRate
    /\ got = NoGet
    /\ \E segs \in SegmentSeqs : page = [NoPage EXCEPT !.body = StringifySegments(segs)]

NextPage ==
    \/ \E len \in 1..MaxChunkLen : ReadChunk(len)
    \/ ReadDone

SpecPage == InitPage /\ [][NextPage]_vars


(***************************************************************************)
(* Properties                                                              *)
(***************************************************************************)
Done(r) == req[r].pc = "done"

Logged(r) == Len(usage_logs) - req[r].logBase

FailedBody == "Unfortunately this file couldn't be processed. The file may be corrupt or in an unsupported format."
NoUriBody == "File upload incomplete, URI not available"
SorryBody == "Sorry, something went wrong generating the transcript. Please try again later."

RetryableMessages == {{"429"}, {"rate limit"}, {"503"}}

\* C1: once a POST has returned its response, no temporary file created for it
\* is left on disk.
C1_TempFilesRemoved ==
    \A r \in Slots : Done(r) =>
        \A i \in DOMAIN req[r].tasks : ~req[r].tasks[i].exists

\* C2, as claimed: no 24-hour interval, wherever it starts, holds more than 5
\* admissions of one client that kept their charge.
C2_Rolling ==
    \A ip \in IPs : \A i, j \in DOMAIN admits[ip] :
        j - i >= RATE_LIMIT => admits[ip][j].t - admits[ip][i].t >= DURATION

\* C2, amended: at most 5 admissions that keep their charge are made against one
\* window record, its count stays within 0..5, and a POST is answered 429 exactly
\* when the window it is checked against already stands at 5.
C2_PerWindow ==
    /\ \A ip \in IPs : \A id \in DOMAIN recs :
          /\ Cardinality({k \in DOMAIN admits[ip] : admits[ip][k].rec = id}) <= RATE_LIMIT
          /\ recs[id].count \in 0..RATE_LIMIT
    /\ \A r \in Slots : req[r].record # 0 =>
          (req[r].preCount >= RATE_LIMIT <=> (Done(r) /\ req[r].response.status = 429))

C2_Witness ==
    \E r \in Slots :
        /\ Done(r) /\ req[r].response.status = 429
        /\ Cardinality({k \in DOMAIN admits[req[r].ip] :
                           admits[req[r].ip][k].rec = req[r].record}) = RATE_LIMIT

\* C3: a POST that was admitted and then failed locally has decremented the
\* counter exactly once, which puts it back at its value before the admission.
LocalFailure(r) ==
    /\ Done(r)
    /\ \/ req[r].response.body \in {"Expected multipart/form-data", "File too large",
                                   "No file uploaded"}
       \/ req[r].parse = "rejected"

C4_DurationRejectionRefunds ==
    \A r \in Slots :
        (Done(r) /\ req[r].response.body = "File is too long") =>
            recs[req[r].record].count = req[r].preCount

\* C5: a measured duration over 2 hours, and only that, is rejected with a 400
\* that states the duration in minutes, and the rejected request has made no
\* provider call.
C5_LongMediaRejectedBeforeUpload ==
    \A r \in Slots :
        /\ (req[r].durationMs > 7200000) <=>
              (Done(r) /\ req[r].response.body = "File is too long")
        /\ req[r].response.body = "File is too long" =>
              /\ req[r].response.status = 400
              /\ req[r].response.minutes * 60000 - 30000 <= req[r].durationMs
              /\ req[r].durationMs < req[r].response.minutes * 60000 + 30000
              /\ req[r].calls \cap {"upload", "get", "generate", "delete"} = {}
              /\ ~req[r].uploadResult

C5_Witness ==
    \E r \in Slots : req[r].response.body = "File is too long" /\ req[r].response.minutes = 121

C5_WitnessAtCeiling ==
    \E r \in Slots : req[r].durationMs = 7200000 /\ req[r].uploadResult

\* C6: the models are attempted in list order, each attempt after the first
\* following a retryable failure, and the model of the attempt that succeeded is
\* the one recorded, with no attempt after it.
C6_FallbackOrder ==
    \A r \in Slots :
        /\ Len(req[r].attempts) <= Len(models)
        /\ \A k \in DOMAIN req[r].attempts : req[r].attempts[k] = models[k]
        /\ (req[r].pc = "gen" /\ Len(req[r].attempts) > 1) =>
              req[r].lastError \in RetryableMessages
        /\ (Done(r) /\ req[r].attempts # <<>> /\ req[r].lastError \in RetryableMessages
               /\ req[r].result = "none") =>
              Len(req[r].attempts) = Len(models)
        /\ req[r].result = "stream" =>
              /\ req[r].pc \in {"delete", "done"}
              /\ req[r].successfulModel = req[r].attempts[Len(req[r].attempts)]
              /\ req[r].usageId # 0 =>
                    usage_logs[req[r].usageId].model_used = req[r].successfulModel

C6_Witness ==
    \E r \in Slots :
        /\ Done(r) /\ req[r].result = "stream" /\ req[r].usageId # 0
        /\ req[r].successfulModel = "gemini-2.5-flash"
        /\ req[r].attempts = <<"gemini-3-flash-preview", "gemini-2.5-flash">>

\* C7: a generation attempt that fails with a non-retryable error ends the
\* request at once with a failure: no further attempt, no usage record.
C7_FatalAborts ==
    \A r \in Slots :
        (req[r].attempts # <<>> /\ req[r].lastError \in GenErrors \ RetryableMessages) =>
            /\ Done(r)
            /\ req[r].response.status = 500
            /\ Len(req[r].attempts) = req[r].model
            /\ req[r].result = "none"
            /\ req[r].usageId = 0
            /\ Logged(r) = 0

C7_Witness ==
    \E r \in Slots :
        /\ Done(r) /\ req[r].lastError = {"400"}
        /\ req[r].attempts = <<"gemini-3-flash-preview">>

\* C8: the response after every model failed with a retryable error differs from
\* the response after one model failed with a non-retryable error.
Exhausted(r) ==
    /\ Done(r)
    /\ Len(req[r].attempts) = Len(models)
    /\ req[r].result = "none"
    /\ req[r].lastError \in RetryableMessages

C8_ExhaustionDistinct ==
    \A r \in Slots : Exhausted(r) =>
        req[r].response #
            AfterGenError([req[r] EXCEPT !.pc = "gen", !.model = 1,
                                         !.attempts = <<models[1]>>],
                          {"400"}).response

\* C9: the k-th consecutive transient poll error, k = 1..3, is followed by a wait
\* of 1000 * 2^(k-1) ms and then another poll; the 4th ends the request with a
\* failure that is not the response for state FAILED; a poll that succeeds
\* starts the count again.
C9_BackoffState ==
    \A r \in Slots :
        /\ req[r].retries = req[r].streak
        /\ req[r].pc = "backoff" =>
              /\ req[r].streak \in 1..3
              /\ req[r].delay = CASE req[r].streak = 1 -> 1000
                                  [] req[r].streak = 2 -> 2000
                                  [] req[r].streak = 3 -> 4000
        /\ req[r].streak >= 1 => req[r].pc \in {"backoff", "sleep5", "poll", "done"}
        /\ req[r].streak > 3 =>
              /\ req[r].streak = 4
              /\ Done(r)
              /\ req[r].response.status = 500
              /\ req[r].response.body # FailedBody

C9_BackoffStep ==
    \A r \in Slots :
        /\ req[r].pc = "backoff" => req'[r].pc \in {"backoff", "sleep5"}
        /\ req[r].pc = "sleep5" => req'[r].pc \in {"sleep5", "poll"}
        /\ (req[r].pc = "poll" /\ req'[r].pc \in {"sleep5", "gen"}) => req'[r].streak = 0

C9_Backoff == []C9_BackoffState /\ [][C9_BackoffStep]_vars

C9_Witness ==
    \E r \in Slots : Done(r) /\ req[r].streak = 4 /\ req[r].response.body = SorryBody

C9_WitnessWait ==
    \E r \in Slots : req[r].pc = "backoff" /\ req[r].delay = 4000

\* C10: provider state FAILED, or a finished state without a result URI, ends
\* the request with a 500 at once: no further poll, no generation attempt, no
\* usage record.
C10_ProviderFatal ==
    \A r \in Slots :
        /\ req[r].state = "FAILED" =>
              Done(r) /\ req[r].response = Response(500, FailedBody)
        /\ (req[r].state = "ACTIVE" /\ ~req[r].uri) =>
              Done(r) /\ req[r].response = Response(500, NoUriBody)
        /\ req[r].response.body \in {FailedBody, NoUriBody} =>
              /\ req[r].attempts = <<>>
              /\ "generate" \notin req[r].calls
              /\ "delete" \notin req[r].calls
              /\ req[r].usageId = 0
              /\ Logged(r) = 0

C10_Witness ==
    \E r \in Slots : Done(r) /\ req[r].state = "FAILED" /\ req[r].logBase = 1

C10_WitnessNoUri ==
    \E r \in Slots : Done(r) /\ req[r].response.body = NoUriBody

(***************************************************************************)
(* Stream relay                                                            *)
(***************************************************************************)
\* The text a chunk carries: none when its text is undefined.
Texts(cs) == [i \in DOMAIN cs |-> IF cs[i].has THEN cs[i].text ELSE ""]

RECURSIVE Concat(_)
Concat(ss) == IF ss = <<>> THEN "" ELSE Head(ss) \o Concat(Tail(ss))

\* The chunks the provider has delivered so far.
Consumed == SubSeq(stream.input, 1, Len(stream.input) - Len(stream.upstream))

\* C11: at every moment the relay has put out exactly the non-empty texts of
\* the chunks delivered so far, in their order and unchanged, so that the
\* output concatenates to what the delivered texts concatenate to; a relay
\* that ended has been delivered every chunk of the provider's stream.
C11_RelayFilter ==
    /\ stream.out = SelectSeq(Texts(Consumed), LAMBDA t : t # "")
    /\ Concat(stream.out) = Concat(Texts(Consumed))
    /\ stream.gen = "ended" => Consumed = stream.input

\* A stream of three chunks, one of them with an empty text and one without
\* text, relayed to its end.
C11_Witness ==
    /\ stream.gen = "ended"
    /\ ~stream.cancelled
    /\ Len(stream.input) = 3
    /\ Len(stream.out) = 1
    /\ \E i \in DOMAIN stream.input : stream.input[i] = [has |-> TRUE, text |-> ""]
    /\ \E i \in DOMAIN stream.input : ~stream.input[i].has

\* C12: once the client has cancelled the body, the relay asks the provider's
\* generator for no further chunk.
C12_CancelStopsPulling == stream.latePulls = 0

(***************************************************************************)
(* Usage ledger                                                            *)
(***************************************************************************)
\* The row logUsage writes for the request in slot r.
UsageRow(r) ==
    [file_size_bytes |-> req[r].fileSizeBytes, model_used |-> req[r].successfulModel,
     duration_ms |-> req[r].durationMs, rating |-> 0]

\* C13 as stated: a finished POST has written exactly one usage record when
\* it answered with the streaming 200, and none when it answered otherwise.
C13_ExactlyOnePerSuccess ==
    \A r \in Slots :
        Done(r) => Logged(r) = IF req[r].response.status = 200 THEN 1 ELSE 0

\* C13: a POST never writes more than one usage record.  It has written one,
\* the row of its own size, model and duration under the id its X-Usage-Id
\* header carries, when it answered with the streaming 200 and the insert
\* succeeded; it has written none when the insert threw (the header is then
\* 0) and none when it answered otherwise.
C13_AtMostOnePerSuccess ==
    \A r \in Slots :
        /\ req[r].pc # "idle" => Logged(r) \in {0, 1}
        /\ Done(r) /\ req[r].response.status # 200 => Logged(r) = 0
        /\ Done(r) /\ req[r].response.status = 200 =>
              /\ Logged(r) = IF req[r].response.xUsageId = 0 THEN 0 ELSE 1
              /\ req[r].response.xUsageId # 0 =>
                    /\ req[r].response.xUsageId = Len(usage_logs)
                    /\ usage_logs[Len(usage_logs)] = UsageRow(r)

\* A real-mode request that streamed and left its one record.
C13_Witness ==
    \E r \in Slots :
        /\ Done(r) /\ req[r].response.status = 200 /\ req[r].result = "stream"
        /\ Logged(r) = 1 /\ req[r].response.xUsageId = Len(usage_logs)

\* C14: a request that obtained its transcript and whose usage record could
\* not be written is answered like any other success, with status 200 and
\* the relayed stream as its body, and with 0 as its usage id.
C14_LedgerFailureSwallowed ==
    \A r \in Slots :
        Done(r) /\ req[r].result # "none" /\ Logged(r) = 0 =>
            req[r].response = [status |-> 200, body |-> "stream", minutes |-> 0,
                               xUsageId |-> 0]

\* A real-mode request whose insert threw, answered 200 with usage id 0.
C14_Witness ==
    \E r \in Slots :
        /\ Done(r) /\ req[r].result = "stream" /\ Logged(r) = 0
        /\ "delete" \in req[r].calls
        /\ req[r].response.status = 200 /\ req[r].response.xUsageId = 0

(***************************************************************************)
(* POST /rate                                                              *)
(***************************************************************************)
\* C15: a POST /rate whose rating is neither 1 nor -1, or whose body has no
\* usageId, is answered 400 without the success flag, and the ledger is what
\* it was before the request, ratings included.
C15_InvalidRatingRejected ==
    rate.status # 0 /\ (rate.rating \notin {1, -1} \/ rate.usageId = -1) =>
        /\ rate.status = 400
        /\ ~rate.success
        /\ usage_logs = rate.before

\* A rating of 2 for a record that exists, answered 400.
C15_Witness ==
    /\ rate.status = 400
    /\ rate.rating = 2
    /\ rate.usageId \in DOMAIN usage_logs

\* A valid rating without usageId, answered 400, after an earlier rating was stored.
C15_WitnessNoId ==
    /\ rate.status = 400
    /\ rate.rating = 1
    /\ rate.usageId = -1
    /\ \E i \in DOMAIN usage_logs : usage_logs[i].rating = -1

\* C16: a POST /rate with rating 1 or -1 and a usageId that is the id of no
\* usage record is not answered with the success flag, and the ledger is what
\* it was before the request.
C16_UnknownIdRejected ==
    (/\ rate.status # 0
     /\ rate.rating \in {1, -1}
     /\ rate.usageId > Len(rate.before)) =>
        /\ ~rate.success
        /\ usage_logs = rate.before

(***************************************************************************)
(* Size ceiling                                                            *)
(***************************************************************************)
\* C17: a multipart POST that passed the origin check and the admission gate
\* and declares more than 256 MB is answered 413 with nothing of its body
\* parsed: no part seen, no temporary file, no write task, no probe and no
\* provider call, no usage record, and the client's counter back at the value
\* the gate found; no other request is answered 413.
C17_TooLargeRejected ==
    \A r \in Slots :
        LET q == req[r]
            declaredTooLarge == /\ q.pc # "idle"
                                /\ q.record # 0
                                /\ q.preCount < 5
                                /\ q.contentType = "multipart/form-data"
                                /\ q.contentLength > 256 * 1024 * 1024
        IN  /\ q.response.status = 413 <=> declaredTooLarge
            /\ declaredTooLarge =>
                  /\ q.pc = "done"
                  /\ q.response.body = "File too large"
                  /\ q.parse = "none" /\ q.nparts = 0
                  /\ q.tasks = <<>> /\ q.tempFileHandle = 0
                  /\ q.calls = {} /\ ~q.uploadResult
                  /\ Logged(r) = 0
                  /\ recs[q.record].count = q.preCount

\* A request over the ceiling, answered 413, from a client that holds the
\* charge of an earlier request.
C17_Witness ==
    \E r \in Slots :
        /\ req[r].response.status = 413
        /\ req[r].preCount = 1
        /\ recs[req[r].record].count = 1

(***************************************************************************)
(* Temporary files of one request                                          *)
(***************************************************************************)
\* The write tasks of slot r that have created their temporary file.
Created(r) ==
    {i \in DOMAIN req[r].tasks :
        req[r].tasks[i].exists \/ req[r].tasks[i].st \in {"writing", "flushing", "written"}}

\* C18: a request creates at most one temporary file, whatever parts its
\* body has.
C18_OneTempFile == \A r \in Slots : Cardinality(Created(r)) <= 1

\* C19: once ingestion has been interrupted and the request has ended, no
\* temporary file of the request exists.
C19_InterruptedCleanup ==
    \A r \in Slots :
        Done(r) /\ req[r].parse = "rejected" =>
            \A i \in DOMAIN req[r].tasks : ~req[r].tasks[i].exists

(***************************************************************************)
(* Mock mode                                                               *)
(***************************************************************************)
\* C20: in mock mode no request probes, uploads, polls, generates or deletes;
\* a request that got as far as its transcript has the mock result, is
\* answered with the streaming 200 under the usage id logUsage returned, and
\* the record under that id is the mock model's row of the request.
C20_MockBypassesProvider ==
    MOCK_API =>
        \A r \in Slots :
            /\ req[r].calls = {}
            /\ ~req[r].uploadResult
            /\ req[r].attempts = <<>>
            /\ req[r].pc \notin {"probe", "upload", "get0", "sleep5", "poll", "backoff",
                                 "gen", "delete"}
            /\ req[r].result \in {"none", "mock"}
            /\ req[r].result = "mock" =>
                  /\ Done(r)
                  /\ req[r].response = [status |-> 200, body |-> "stream", minutes |-> 0,
                                        xUsageId |-> req[r].usageId]
                  /\ req[r].successfulModel = "mock-model-v1"
                  /\ req[r].durationMs = 15000
                  /\ Logged(r) = IF req[r].usageId = 0 THEN 0 ELSE 1
                  /\ req[r].usageId # 0 =>
                        /\ req[r].usageId = Len(usage_logs)
                        /\ usage_logs[req[r].usageId] = UsageRow(r)

\* A mock request that streamed and left its record.
C20_Witness ==
    /\ MOCK_API
    /\ \E r \in Slots :
          /\ Done(r) /\ req[r].result = "mock"
          /\ req[r].response.status = 200
          /\ req[r].usageId = 1
          /\ usage_logs[1].model_used = "mock-model-v1"

(***************************************************************************)
(* Mock generator                                                          *)
(***************************************************************************)
\* The JSON serialization of the four fixed segments.
MockJson ==
    "[{\"timestamp\":\"00:01\",\"speaker\":\"Mock Speaker\",\"text\":\"This is a simulated transcript for local development.\"},"
    \o "{\"timestamp\":\"00:05\",\"speaker\":\"Mock Speaker\",\"text\":\"It allows you to test the UI, streaming, and database without hitting the Google API.\"},"
    \o "{\"timestamp\":\"00:10\",\"speaker\":\"Mock Speaker\",\"text\":\"This specific sentence helps test long text wrapping in the frontend component to ensure it looks good.\"},"
    \o "{\"timestamp\":\"00:15\",\"speaker\":\"Mock Speaker\",\"text\":\"End of simulation.\"}]"

\* C21: the mock generator's chunks are finitely many, each has a text of 1
\* to 10 characters, and their texts concatenate, in order, to the JSON
\* serialization of the four fixed segments, the last of which is the segment
\* at 00:15 saying 'End of simulation.'; what the relay has put out is a
\* prefix of that serialization and, once the relay has ended, all of it.
C21_MockChunks ==
    /\ Len(stream.input) = 49
    /\ \A i \in DOMAIN stream.input :
          /\ stream.input[i].has
          /\ Len(stream.input[i].text) \in 1..10
    /\ Concat(Texts(stream.input)) = MockJson
    /\ Len(mockData) = 4
    /\ mockData[4] = [timestamp |-> "00:15", speaker |-> "Mock Speaker",
                      text |-> "End of simulation."]
    /\ Concat(stream.out) = SubSeq(MockJson, 1, Len(Concat(stream.out)))
    /\ stream.gen = "ended" => Concat(stream.out) = MockJson

\* The mock transcript relayed to its end.
C21_Witness ==
    /\ stream.gen = "ended"
    /\ Len(stream.out) = 49
    /\ Concat(stream.out) = MockJson

(***************************************************************************)
(* GET /upload                                                             *)
(***************************************************************************)
\* C22: a GET is answered from its client's window as the check left it:
\* 200 with remaining = 5 - count when the count is below 5, otherwise 429
\* with an empty body.
C22_GetAnswer ==
    got.status # 0 =>
        LET count == recs[requests[got.ip]].count
        IN  IF count < 5
            THEN got.status = 200 /\ got.remaining = 5 - count
            ELSE got.status = 429 /\ got.body = ""

(***************************************************************************)
(* Status taxonomy                                                         *)
(***************************************************************************)
\* What ended the request in slot r, read off its headers and its progress.
OriginMismatch(r) == req[r].origin = "cross"

QuotaExhausted(r) == ~OriginMismatch(r) /\ req[r].preCount >= 5

Admitted(r) == ~OriginMismatch(r) /\ req[r].preCount \in 0..4

NotMultipart(r) == Admitted(r) /\ req[r].contentType # "multipart/form-data"

Oversized(r) ==
    Admitted(r) /\ ~NotMultipart(r) /\ req[r].contentLength > 256 * 1024 * 1024

IngestionFailed(r) == req[r].parse = "rejected"

WithoutFile(r) == req[r].parse = "resolved" /\ req[r].tempFileHandle = 0

Ingested(r) == req[r].parse = "resolved" /\ req[r].tempFileHandle # 0

TooLong(r) == Ingested(r) /\ req[r].durationMs > 2 * 60 * 60 * 1000

ProviderFailed(r) == Ingested(r) /\ ~TooLong(r) /\ req[r].result = "none"

C23_WitnessQuota ==
    \E r \in Slots :
        /\ Done(r) /\ QuotaExhausted(r) /\ req[r].response.status = 429
        /\ posts = 2

(***************************************************************************)
(* Client page                                                             *)
(***************************************************************************)
\* C24: once the page has read the whole body, the segments of its last
\* speculative parse are the segments of its final parse.
C24_SpeculativeIsFinal ==
    page.uploadComplete /\ page.read => page.speculative = page.transcriptArray

(***************************************************************************)
(* Client identifier                                                       *)
(***************************************************************************)
\* The first comma-separated entry of each x-forwarded-for value, trimmed.
FirstOfXff(header) ==
    CASE header = Header("2.2.2.2") -> "2.2.2.2"
      [] header = Header("2.2.2.2, 3.3.3.3") -> "2.2.2.2"
      [] header = Header(" 2.2.2.2 ,3.3.3.3") -> "2.2.2.2"
      [] OTHER -> ""

\* C25: a GET is counted against the fly-client-ip header when that header is
\* present and not empty, else against the first entry of x-forwarded-for
\* when that entry is not blank, and against the address of the connection
\* only when neither header gives a value.
C25_ClientIdentifier ==
    got.status # 0 =>
        LET h == got.headers
        IN  /\ got.ip = IF h.fly \notin {Absent, Header("")} THEN h.fly.value
                        ELSE IF FirstOfXff(h.xff) # "" THEN FirstOfXff(h.xff)
                        ELSE h.address
            /\ got.ip # ""
            /\ requests[got.ip] # 0

\* A request behind a proxy chain without fly-client-ip, counted against the
\* first, padded entry of x-forwarded-for.
C25_Witness ==
    /\ got.status # 0
    /\ got.headers.fly = Header("")
    /\ got.headers.xff = Header(" 2.2.2.2 ,3.3.3.3")
    /\ got.ip = "2.2.2.2"

\* A request whose x-forwarded-for starts with a blank entry, counted against
\* the address of the connection.
C25_WitnessAddress ==
    /\ got.status # 0
    /\ got.headers.fly = Absent
    /\ got.headers.xff = Header(" , 3.3.3.3")
    /\ got.ip = "9.9.9.9"

(***************************************************************************)
(* Duration probe that throws                                              *)
(***************************************************************************)
\* C26: a request whose duration probe threw is not answered by the probe:
\* it has gone on to the upload to the provider with a duration of 0, it is
\* never answered as too long, and the usage row it writes has duration 0.
C26_ProbeFailureTolerated ==
    \A r \in Slots :
        req[r].durationError =>
            /\ "upload" \in req[r].calls
            /\ req[r].durationMs = 0
            /\ req[r].response.body # "File is too long"
            /\ req[r].pc = "upload" => req[r].response.status = 0
            /\ req[r].usageId # 0 => usage_logs[req[r].usageId].duration_ms = 0

\* A request whose probe threw, transcribed and logged with duration 0.
C26_Witness ==
    \E r \in Slots :
        /\ req[r].durationError
        /\ req[r].response.status = 200
        /\ req[r].usageId # 0
        /\ usage_logs[req[r].usageId].duration_ms = 0

(***************************************************************************)
(* Concurrent requests and the window table                                *)
(***************************************************************************)
\* The charges kept against window record id
Kept(id) ==
    Cardinality({k \in DOMAIN admits["ip1"] : admits["ip1"][k].rec = id})

\* C27: a refund never puts an older window back into the table, so the table
\* always holds the client's newest window, and the count of every window is
\* the number of charges kept against it.
C27_RefundKeepsWindow ==
    /\ \A ip \in IPs : requests[ip] = Len(recs)
    /\ \A id \in DOMAIN recs : recs[id].count = Kept(id)

\* The count of every window is the number of charges kept against it and
\* lies within 0..5.
C28_Counts ==
    /\ \A id \in DOMAIN recs :
          /\ recs[id].count \in 0..RATE_LIMIT
          /\ recs[id].count = Kept(id)
    /\ \A r \in Slots : req[r].pc = "parse" =>
          /\ req[r].preCount \in 0..(RATE_LIMIT - 1)
          /\ recs[req[r].record].count >= 1

\* A POST that is admitted finds the count it was checked against and leaves
\* it one higher in the same step, in which no other request moves.
C28_AdmissionStep ==
    \A r \in Slots :
        (req[r].pc \in {"idle", "done"} /\ req'[r].pc = "parse") =>
            /\ req'[r].preCount =
                   IF FreshNeeded("ip1") THEN 0 ELSE recs[requests["ip1"]].count
            /\ recs'[req'[r].record].count = req'[r].preCount + 1
            /\ \A o \in Slots \ {r} : req'[o] = req[o]

\* C28: under every interleaving of the concurrent GET and POST requests of
\* one client, the check and the increment of an admitted POST are one step,
\* and the count of every window record stays within 0..5.
C28_Interleaving == []C28_Counts /\ [][C28_AdmissionStep]_vars

\* Two requests in flight at once against the same window, which they fill.
C28_Witness ==
    /\ req["h1"].pc = "parse" /\ req["h2"].pc = "parse"
    /\ req["h1"].record = req["h2"].record
    /\ recs[req["h1"].record].count = 2

\* A request answered 429 while another one, admitted before it, is in flight.
C28_WitnessFull ==
    \E r, o \in Slots :
        /\ req[r].pc = "parse" /\ req[r].preCount = RATE_LIMIT - 1
        /\ req[o].response.status = 429 /\ req[o].record = req[r].record

(***************************************************************************)
(* Window expiry                                                           *)
(***************************************************************************)
\* The step is an admission check: a GET, or a POST that passed the origin
\* test.
Checks ==
    \/ got'.status # 0
    \/ posts' # posts /\ \E r \in Handlers : req'[r].origin = "same"

\* The count a check leaves behind is the count it found, or one more when
\* the check was the one of a POST that kept or got back its charge.
CountAfter(found) ==
    IF got'.status # 0 THEN {found} ELSE {found, found + 1}

C29_CheckStep ==
    \A ip \in IPs :
        LET old == requests[ip]
            new == requests'[ip]
        IN  /\ (Checks /\ old # 0 /\ recs[old].expires >= now) =>
                  /\ new = old
                  /\ Len(recs') = Len(recs)
                  /\ recs'[old].expires = recs[old].expires
                  /\ recs'[old].count \in CountAfter(recs[old].count)
            /\ (Checks /\ old # 0 /\ recs[old].expires < now) =>
                  /\ new = Len(recs) + 1
                  /\ Len(recs') = Len(recs) + 1
                  /\ recs'[new].expires = now + 24 * 60 * 60 * 1000
                  /\ recs'[new].count \in CountAfter(0)
                  /\ recs'[old] = recs[old]
            /\ ~Checks => Len(recs') = Len(recs)

\* C29: an admission check (GET or POST) made strictly after the expiry of
\* the client's window puts a fresh window in its place, with count 0 before
\* the request's own charge and expiry at the time of the check plus 24 hours;
\* a check made at or before the expiry keeps the window and its count.
C29_ExpiryReplaces == [][C29_CheckStep]_vars

\* A GET made one millisecond after the expiry of the first window: a second
\* window, empty, expiring 24 hours after the GET.
C29_Witness ==
    /\ got.status = 200
    /\ Len(recs) = 2
    /\ recs[1].expires = DURATION /\ recs[1].count > 0
    /\ now = DURATION + 1
    /\ recs[2] = [count |-> 0, expires |-> 2 * DURATION + 1]

\* A GET made at the very time of expiry: the window and its count are kept.
C29_WitnessAtExpiry ==
    /\ got.status = 200
    /\ Len(recs) = 1
    /\ recs[1].expires = now /\ recs[1].count > 0

(***************************************************************************)
(* Transient errors of the readiness checks                                *)
(***************************************************************************)
\* C30: no request ends on a transient 500 error of a readiness check, the
\* first check after the upload included: such an error is followed by a
\* backoff wait, and only the 4th in a row ends the request, as unavailable.
C30_TransientRetried ==
    \A r \in Slots :
        /\ (Done(r) /\ "generate" \notin req[r].calls) =>
              "500 Internal Server Error" \notin req[r].lastError
        /\ (Done(r) /\ req[r].lastError = {"Transcription API is currently unavailable"}) =>
              req[r].streak = maxRetries + 1

(***************************************************************************)
(* The polling loop has no bound of its own                                *)
(***************************************************************************)
InLoop(r) == req[r].pc \in {"sleep5", "poll", "backoff"}

\* A request is in the loop only while the last answer was PROCESSING, and a
\* request that ended with that answer ended on an error that was not
\* transient or on the 4th transient error in a row.
C31_LoopState ==
    \A r \in Slots :
        /\ InLoop(r) => req[r].state = "PROCESSING"
        /\ (Done(r) /\ req[r].state = "PROCESSING") =>
              \/ req[r].lastError = {"fetch failed"} /\ req[r].response.body = SorryBody
              \/ /\ req[r].lastError = {"Transcription API is currently unavailable"}
                 /\ req[r].streak = 4
                 /\ req[r].response.body = SorryBody

\* A check that answers PROCESSING is followed by the next wait, however many
\* checks answered PROCESSING before it, and a request leaves the loop only
\* from a check.
C31_LoopStep ==
    \A r \in Slots :
        /\ (req[r].pc = "poll" /\ req'[r].polls = req[r].polls + 1) =>
              req'[r].pc = "sleep5" /\ req'[r].retries = 0
        /\ (InLoop(r) /\ ~InLoop(r)') => req[r].pc = "poll"

\* C31: the polling loop ends only on an answer other than PROCESSING, on an
\* error that is not transient, or on the 4th transient error in a row; no
\* number of checks answering PROCESSING ends it.
C31_PollLoop == []C31_LoopState /\ [][C31_LoopStep]_vars

\* A request still waiting after as many PROCESSING answers as are followed.
C31_Witness ==
    \E r \in Slots : req[r].pc = "sleep5" /\ req[r].polls = MaxPolls

(***************************************************************************)
(* Ingestion hands over finished files only                                *)
(***************************************************************************)
\* C32: once parsePromise has resolved and the handler has gone on, every write
\* task the request started has completed, whatever the number of file parts.
C32_WritesComplete ==
    \A r \in Slots :
        req[r].parse = "resolved" =>
            \A i \in DOMAIN req[r].tasks : req[r].tasks[i].st = "written"

(***************************************************************************)
(* Size of the temporary file                                              *)
(***************************************************************************)
\* C33: no temporary file of a request holds more than 256 MB, whether or not
\* the request declared its length.
C33_TempFileBounded ==
    \A r \in Slots : \A i \in DOMAIN req[r].tasks :
        req[r].tasks[i].bytes <= 256 * 1024 * 1024

(***************************************************************************)
(* Provider failures keep the charge                                       *)
(***************************************************************************)
\* The request got as far as the upload to the provider and was answered 500.
FailedAtProvider(r) ==
    Done(r) /\ "upload" \in req[r].calls /\ req[r].response.status = 500

\* C34: a request that failed at the provider (upload error, poll failure or
\* retries used up, state FAILED, no URI, model failure or models used up) has
\* not decremented the counter, which stands one above the count the request
\* was admitted at; no request decrements the counter more than once.
C34_ProviderFailureCharged ==
    \A r \in Slots :
        /\ FailedAtProvider(r) =>
              /\ req[r].refunds = 0
              /\ recs[req[r].record].count = req[r].preCount + 1
              /\ requests[req[r].ip] = req[r].record
        /\ req[r].refunds <= 1

\* A second request of the client, failed by the provider's state FAILED, with
\* the counter at 2.
C34_Witness ==
    \E r \in Slots :
        /\ FailedAtProvider(r)
        /\ req[r].response.body = FailedBody
        /\ req[r].preCount = 1
        /\ recs[req[r].record].count = 2

\* A request failed after every model was tried.
C34_WitnessExhausted ==
    \E r \in Slots : FailedAtProvider(r) /\ Exhausted(r) /\ req[r].refunds = 0

(***************************************************************************)
(* An exhausted quota stops the request before any work                    *)
(***************************************************************************)
\* A request checked against a window at count 5 has ended with the 429 of the
\* quota; the counter stands at 5, and the request has read no part, created
\* no temporary file, called no provider and written no usage record.
C35_QuotaStopsAll ==
    \A r \in Slots :
        (req[r].pc # "idle" /\ req[r].origin # "cross" /\ req[r].preCount >= RATE_LIMIT) =>
            /\ Done(r)
            /\ req[r].response = Response(429, "This free service supports up to 5 requests per user per day. Please try again tomorrow.")
            /\ recs[req[r].record].count = RATE_LIMIT
            /\ requests[req[r].ip] = req[r].record
            /\ req[r].refunds = 0
            /\ req[r].parse = "none" /\ req[r].nparts = 0
            /\ req[r].tasks = <<>> /\ req[r].tempFileHandle = 0
            /\ req[r].calls = {}
            /\ req[r].usageId = 0 /\ Logged(r) = 0

\* The step that answers 429 finds the window at 5 and changes neither the
\* table, nor a window record, nor the ledger.
C35_Step ==
    \A r \in Slots :
        (req[r].pc \in {"idle", "done"} /\ req'[r].pc = "done" /\ req'[r].response.status = 429
         /\ posts' # posts) =>
            /\ requests["ip1"] # 0
            /\ recs[requests["ip1"]].count = RATE_LIMIT
            /\ recs' = recs /\ requests' = requests /\ usage_logs' = usage_logs

\* C35: a POST that finds the client's unexpired window at count 5 is answered
\* 429 before any work: the counter is left unchanged, no part of the body is
\* read, no temporary file is created, and no provider call or usage record is
\* made.
C35_QuotaGate == []C35_QuotaStopsAll /\ [][C35_Step]_vars

\* The 6th request against a window that is not expired.
C35_Witness ==
    \E r \in Slots :
        /\ Done(r) /\ req[r].response.status = 429
        /\ req[r].preCount = RATE_LIMIT
        /\ recs[req[r].record].expires >= now
        /\ recs[req[r].record].count = RATE_LIMIT

(***************************************************************************)
(* Deletion of the provider's copy                                         *)
(***************************************************************************)
\* C36: a real-mode request for which a model attempt succeeded attempts the
\* deletion of the provider's file exactly once, before it is answered, and is
\* answered 200 whether or not the deletion threw; a request that ended in
\* failure, and every request in mock mode, attempts none.
C36_DeleteOnceOnSuccess ==
    \A r \in Slots :
        /\ req[r].deletes <= 1
        /\ req[r].deletes = 1 <=> "delete" \in req[r].calls
        /\ (~MOCK_API /\ req[r].result = "stream") => req[r].deletes = 1
        /\ req[r].pc = "delete" =>
              req[r].deletes = 1 /\ req[r].response.status = 0 /\ req[r].uploadResult
        /\ (Done(r) /\ req[r].response.status = 200) =>
              req[r].deletes = (IF MOCK_API THEN 0 ELSE 1)
        /\ (Done(r) /\ req[r].response.status # 200) =>
              req[r].deletes = 0 /\ ~req[r].deleteError
        /\ (Done(r) /\ req[r].deleteError) => req[r].response.status = 200

\* A request answered 200 although its deletion threw.
C36_Witness ==
    \E r \in Slots :
        /\ Done(r) /\ req[r].response.status = 200
        /\ req[r].deletes = 1 /\ req[r].deleteError

\* A request that failed after a successful upload, at the model loop.
C36_WitnessFailure ==
    \E r \in Slots :
        /\ Done(r) /\ req[r].uploadResult /\ req[r].attempts # <<>>
        /\ req[r].response.status = 500 /\ req[r].deletes = 0

(***************************************************************************)
(* Errors of the result stream after the response                          *)
(***************************************************************************)
\* The request whose response body the relay is
Owner == req[stream.owner]

C37_Produced ==
    /\ stream.pulls > 0 => stream.owner \in Slots
    /\ stream.owner \in Slots =>
          /\ Owner.pc = "done"
          /\ Owner.response.status = 200
          /\ Owner.response.xUsageId = Owner.usageId
          /\ Owner.attempts # <<>> =>
                Owner.attempts[Len(Owner.attempts)] = Owner.successfulModel
          /\ Owner.usageId # 0 =>
                /\ Owner.usageId \in DOMAIN usage_logs
                /\ usage_logs[Owner.usageId].model_used = Owner.successfulModel

C37_RelayStep ==
    (stream.owner \in Slots /\ stream' # stream) =>
        /\ req' = req
        /\ usage_logs' = usage_logs

\* C37: the response that hands a result stream over is a 200 whose usage
\* record, if the insert succeeded, is already in the ledger under the model
\* that returned the stream, before the first chunk is asked for; no step of
\* the relay after that, an error of the stream included, starts another
\* model attempt, changes the response or touches the ledger.
C37_StreamErrorAfterResponse == []C37_Produced /\ [][C37_RelayStep]_vars

\* A stream of the first model failed with a retryable error after a chunk
\* had been relayed; the models after it were still untried.
C37_Witness ==
    /\ stream.gen = "failed"
    /\ stream.out # <<>>
    /\ stream.owner \in Slots
    /\ Owner.attempts = <<models[1]>>
    /\ Owner.usageId # 0
    /\ Owner.response.status = 200

(***************************************************************************)
(* Origin check                                                            *)
(***************************************************************************)
\* The request in slot r read nothing of its body.
BodyUnread(r) ==
    /\ req[r].parse = "none"
    /\ req[r].nparts = 0
    /\ req[r].tasks = <<>>

\* The request in slot r never came to the admission gate.
GateNotConsulted(r) == req[r].record = 0 /\ req[r].refunds = 0

\* A request whose Origin header names another origin than the URL's.
ForeignOrigin(r) == req[r].pc # "idle" /\ req[r].origin \in {"cross", "null"}

\* A POST changes the rate windows only if its Origin header is absent or
\* names the origin of the URL.
C38_Step ==
    posts' # posts =>
        \/ \E r \in Slots : req'[r] # req[r] /\ req'[r].origin \in {"none", "same"}
        \/ requests' = requests /\ recs' = recs /\ admits' = admits

\* C38: a request whose Origin header names another origin than the URL's is
\* answered 403, without the admission gate being consulted and without any
\* of its body being read.
C38_ForeignOriginForbidden ==
    \A r \in Slots : ForeignOrigin(r) =>
        /\ Done(r)
        /\ req[r].response.status = 403
        /\ GateNotConsulted(r)
        /\ BodyUnread(r)

\* What holds of every such request: it is over at once, before the gate and
\* before the body, with 403 when its Origin header is a URL.
C38_BeforeGate ==
    \A r \in Slots : ForeignOrigin(r) =>
        /\ Done(r)
        /\ GateNotConsulted(r)
        /\ BodyUnread(r)
        /\ req[r].origin = "cross" => req[r].response.status = 403

\* A request without an Origin header goes on to the gate.
C38_NoOriginAdmitted ==
    \A r \in Slots :
        (req[r].pc # "idle" /\ req[r].origin = "none") =>
            req[r].record # 0 /\ req[r].response.status # 403

====
